---- MODULE Spec2Model ----
(***************************************************************************)
(* Login security of the rentverse backend: the account lockout state      *)
(* machine and the OTP store of OtpService, the email/password and MFA     *)
(* routes of routes/auth.js, the token-checking endpoints and the auth     *)
(* middleware, and the admin unlock route.                                 *)
(*                                                                         *)
(* Time is counted in minutes.  Every request handler is one action: the   *)
(* handlers are async functions, modelled here as they run when no other   *)
(* request is interleaved with them.                                       *)
(***************************************************************************)
EXTENDS Integers, Sequences, FiniteSets, TLC

\* ---- bounds of the model ----
MaxTicks == 3      \* how often the clock advances
MaxOtpTicks == 2   \* clock advances where only OTP and token expiry matter
MaxResetTicks == 1 \* clock advances during the password-reset flow
MaxOtps == 2       \* rows the otpCode table may hold
MaxTokens == 2     \* JWTs handed out to clients
MaxGuesses == 1    \* wrong codes a client submits against one OTP, where bounded
MaxOtpCalls == 2   \* verifyOtp calls followed step by step
MaxLoginCalls == 6 \* /login requests followed step by step
MaxRecentFailures == 4  \* failed logins of the account in the last 15 minutes
MaxIpFailures == 7      \* failed logins from the IP in the last hour
MaxScored == 2          \* login attempts scored
MaxHistory == 5    \* rows the loginHistory table may hold, where it is kept
MaxDeviceCalls == 3     \* checkDevice calls followed step by step
MaxAudit == 5      \* rows the agreementAuditLog table may hold
MaxTracked == 6    \* failed logins one loginAttempts entry may hold
MaxLogs == 2       \* entries the activityLogs array may hold
MaxDays == 2       \* days that go by while an agreement waits for signatures
MaxAgreementCalls == 3  \* sign and cancel calls followed step by step

\* ---- configuration of the program ----
OTP_EXPIRY_MINUTES == 5
MAX_OTP_ATTEMPTS == 5
LOCKOUT_DURATION_MINUTES == 15
MAX_LOGIN_ATTEMPTS == 5
MfaTokenMinutes == 10        \* expiresIn: '10m'
ResetTokenMinutes == 5       \* expiresIn: '5m'
JwtExpiresMinutes == 10080   \* JWT_EXPIRES_IN || '7d'
ReadmeMaxOtpAttempts == 3    \* README: Maximum 3 OTP verification attempts
FailureWindowMinutes == 5    \* Date.now() - 5 * 60 * 1000
FailureThreshold == 3        \* recentFailures >= 3
MinutesPerDay == 1440        \* setDate(getDate() + expiresInDays)
FAILED_ATTEMPT_THRESHOLD == 5
AttemptWindowMinutes == 15   \* ATTEMPT_WINDOW_MS: 15 * 60 * 1000
MAX_STORED_LOGS == 1000
GetLogsLimit == 100          \* limit = 100
RiskFailureWindowMinutes == 15   \* Date.now() - 15 * 60 * 1000
IpFailureWindowMinutes == 60     \* Date.now() - 60 * 60 * 1000

\* the clock advances in steps of the shortest duration of the program; the
\* others (10 and 15 minutes, 7 days) are multiples of it
TickStep == OTP_EXPIRY_MINUTES

Users == {"u1"}
Emails == Users \cup {"nobody@x"}
Passwords == {"pwA", "pwB"}
Codes == {"111111", "222222"}
OtpTypes == {"LOGIN", "PASSWORD_RESET"}

\* A nullable column or field: <<>> is null, <<v>> is the value v.
Null == <<>>
Some(v) == <<v>>

VARIABLES
  now,                \* the clock (new Date(), Date.now()), in minutes
  loginAttempts,      \* user.loginAttempts
  lockedUntil,        \* user.lockedUntil (nullable)
  mfaEnabled,         \* user.mfaEnabled
  password,           \* user.password (what bcrypt.compare accepts)
  otpCodes,           \* the otpCode table, in insertion order
  jwts,               \* the tokens signed with JWT_SECRET so far
  blacklistedTokens,  \* tokenBlacklist's Map (its keys)
  last,               \* the request just handled and its response
  calls,              \* requests in progress or answered, step by step
  loggedOut,          \* history: the tokens /logout has blacklisted
  risk,               \* calculateRiskScore's inputs and evaluations
  loginHistory,       \* the loginHistory table, where it is kept
  userDevice,         \* the userDevice table, where it is kept
  rentalAgreement,    \* a rentalAgreement row (status, signatures, expiry)
  agreementAuditLog,  \* the agreementAuditLog rows of that agreement
  activityLogger      \* the activity logger's loginAttempts Map and
                      \* activityLogs array, and the alerts of each burst

vars == <<now, loginAttempts, lockedUntil, mfaEnabled, password, otpCodes,
          jwts, blacklistedTokens, last, calls, loggedOut, risk, loginHistory,
          userDevice, rentalAgreement, agreementAuditLog, activityLogger>>

Max(a, b) == IF a >= b THEN a ELSE b

\* prisma.user.findUnique({ where: { email } }): the user, or null
FindUserByEmail(email) == IF email \in Users THEN Some(email) ELSE Null

\* ------------------------------------------------------------------------
\* OtpService
\* ------------------------------------------------------------------------

\* bcrypt.hash(code, 10): a salted hash; all that is used of it is that
\* bcrypt.compare accepts exactly the code it was made from
HashOtp(code) == <<"bcrypt", code>>

VerifyOtpHash(code, hashedCode) == hashedCode = <<"bcrypt", code>>

\* generateOtpCode: the code crypto.randomBytes produces; the codes are
\* interchangeable, so one of them stands for the code drawn
GenerateOtpCodes == {"111111"}

\* mutant: only codes that have expired are invalidated
InvalidatedByCreate_Stale(rec, userId, type) ==
  /\ rec.userId = userId /\ rec.type = type /\ rec.usedAt = Null
  /\ now > rec.expiresAt

\* mutant: the unused rows of every type are invalidated
InvalidatedByCreate_AnyType(rec, userId, type) ==
  rec.userId = userId /\ rec.usedAt = Null

\* the updateMany of createOtp: which rows it marks as used
InvalidatedByCreate(rec, userId, type) ==
  rec.userId = userId /\ rec.type = type /\ rec.usedAt = Null

\* createOtp(userId, type), with plainOtp the code generateOtpCode returned:
\* the table afterwards
CreateOtp(recs, userId, type, plainOtp) ==
  Append([i \in DOMAIN recs |->
            IF InvalidatedByCreate(recs[i], userId, type)
              THEN [recs[i] EXCEPT !.usedAt = Some(now)]
              ELSE recs[i]],
         [userId |-> userId, code |-> HashOtp(plainOtp), type |-> type,
          expiresAt |-> now + OTP_EXPIRY_MINUTES, attempts |-> 0,
          usedAt |-> Null, createdAt |-> now])

\* the findFirst of verifyOtp: the rows it may return (unused, of this user
\* and type, with the latest createdAt); empty when it returns null
FindFirstUnused(recs, userId, type) ==
  LET cand == {i \in DOMAIN recs : recs[i].userId = userId
                                   /\ recs[i].type = type
                                   /\ recs[i].usedAt = Null}
  IN {i \in cand : \A j \in cand : recs[j].createdAt <= recs[i].createdAt}

\* mutant: the expiry window counted twice
OtpExpired_Late(rec) == now > rec.expiresAt + OTP_EXPIRY_MINUTES

\* verifyOtp's expiry test
OtpExpired(rec) == now > rec.expiresAt

\* mutant: the limit compared with > instead of >=
AttemptsExceeded_Late(attempts) == attempts > MAX_OTP_ATTEMPTS

\* verifyOtp's test of the attempts made on the row
AttemptsExceeded(attempts) == attempts >= MAX_OTP_ATTEMPTS

\* verifyOtp(userId, code, type) when findFirst returned row i (0: null):
\* its result and the table afterwards
VerifyOtp(recs, userId, code, type, i) ==
  IF i = 0 THEN
    [success |-> FALSE, message |-> "No valid OTP found", records |-> recs]
  ELSE IF OtpExpired(recs[i]) THEN
    [success |-> FALSE, message |-> "OTP has expired", records |-> recs]
  ELSE IF AttemptsExceeded(recs[i].attempts) THEN
    [success |-> FALSE, message |-> "Maximum OTP attempts exceeded",
     records |-> [recs EXCEPT ![i].usedAt = Some(now)]]
  ELSE IF ~VerifyOtpHash(code, recs[i].code) THEN
    [success |-> FALSE, message |-> "Invalid OTP",
     records |-> [recs EXCEPT ![i].attempts = recs[i].attempts + 1]]
  ELSE
    [success |-> TRUE, message |-> "OTP verified successfully",
     records |-> [recs EXCEPT ![i].attempts = recs[i].attempts + 1,
                              ![i].usedAt = Some(now)]]

\* the rows findFirst may return, or 0 when there is none
FoundRows(recs, userId, type) ==
  IF FindFirstUnused(recs, userId, type) = {} THEN {0}
  ELSE FindFirstUnused(recs, userId, type)

\* mutant: a lock that never runs out
CheckAccountLock_NoExpiry(userId) ==
  IF lockedUntil[userId] # Null
    THEN [locked |-> TRUE, lockedUntil |-> lockedUntil[userId]]
    ELSE [locked |-> FALSE, lockedUntil |-> Null]

\* mutant: the lock is never reported
CheckAccountLock_Never(userId) == [locked |-> FALSE, lockedUntil |-> Null]

\* checkAccountLock(userId)
CheckAccountLock(userId) ==
  IF lockedUntil[userId] # Null /\ now < lockedUntil[userId][1]
    THEN [locked |-> TRUE, lockedUntil |-> lockedUntil[userId]]
    ELSE [locked |-> FALSE, lockedUntil |-> Null]

\* mutant: the threshold compared with > instead of >=
ShouldLock_Late(newAttempts) == newAttempts > MAX_LOGIN_ATTEMPTS

\* recordFailedAttempt's shouldLock
ShouldLock(newAttempts) == newAttempts >= MAX_LOGIN_ATTEMPTS

\* mutant: the counter starts over when the account is locked
RecordFailedAttempt_Restart(userId) ==
  LET newAttempts == loginAttempts[userId] + 1
      shouldLock == newAttempts >= MAX_LOGIN_ATTEMPTS
  IN [loginAttempts |-> IF shouldLock THEN 0 ELSE newAttempts,
      lockedUntil |-> IF shouldLock
                        THEN Some(now + LOCKOUT_DURATION_MINUTES)
                        ELSE lockedUntil[userId],
      locked |-> shouldLock,
      attemptsRemaining |-> Max(0, MAX_LOGIN_ATTEMPTS - newAttempts)]

\* mutant: the attempts left before the failure being recorded
AttemptsRemaining_Before(newAttempts) ==
  Max(0, MAX_LOGIN_ATTEMPTS - newAttempts + 1)

\* recordFailedAttempt's Math.max(0, MAX_LOGIN_ATTEMPTS - newAttempts)
AttemptsRemaining(newAttempts) == Max(0, MAX_LOGIN_ATTEMPTS - newAttempts)

\* recordFailedAttempt(userId): the columns it writes and what it returns
RecordFailedAttempt(userId) ==
  LET newAttempts == loginAttempts[userId] + 1
      shouldLock == ShouldLock(newAttempts)
  IN [loginAttempts |-> newAttempts,
      lockedUntil |-> IF shouldLock
                        THEN Some(now + LOCKOUT_DURATION_MINUTES)
                        ELSE lockedUntil[userId],
      locked |-> shouldLock,
      attemptsRemaining |-> AttemptsRemaining(newAttempts)]

\* mutant: the counter is reset but the lock is kept
ResetLoginAttempts_KeepLock(userId) ==
  [loginAttempts |-> 0, lockedUntil |-> lockedUntil[userId]]

\* resetLoginAttempts(userId): the columns it writes (lastLoginAt left out)
ResetLoginAttempts(userId) == [loginAttempts |-> 0, lockedUntil |-> Null]

\* ------------------------------------------------------------------------
\* JSON web tokens
\* ------------------------------------------------------------------------

\* jwt.sign(payload, JWT_SECRET, { expiresIn }); type is "session" for the
\* full token, whose payload is { userId, email, role } and has no type
Sign(userId, type, minutes) ==
  [userId |-> userId, type |-> type, exp |-> now + minutes]

\* jwt.verify(token, JWT_SECRET) does not throw
JwtVerify(token) == now < token.exp

\* isBlacklisted(token)
IsBlacklisted(token) == token \in blacklistedTokens

\* ------------------------------------------------------------------------
\* the request just handled
\* ------------------------------------------------------------------------
NoRequest ==
  [op |-> "none", userId |-> Null, status |-> 0, message |-> "",
   token |-> Null, tokenType |-> Null, compared |-> FALSE, history |-> Null,
   otp |-> Null, attemptsRemaining |-> Null, pw |-> Null, alert |-> Null,
   emailed |-> Null, device |-> Null, tracking |-> Null, log |-> Null,
   data |-> Null]

\* no login attempt is being scored
NoRisk ==
  [knownDevice |-> TRUE, recentFailures |-> 0, hour |-> 12, ipFailures |-> 0,
   scored |-> <<>>]

\* the clients and the emails failed logins are tracked for
TrackedIps == {"ip1"}
TrackedEmails == {"u1"}

\* `${ip}:${email || 'unknown'}`
GetTrackingKey(ip, email) == <<ip, IF email = "" THEN "unknown" ELSE email>>

TrackingKeys == {GetTrackingKey(ip, email) : ip \in TrackedIps,
                                             email \in TrackedEmails}

\* the activity logger when the module is loaded: an empty Map, an empty
\* array. burstAlerts is history: the alerts raised for a key since its
\* current burst of failures began, each failure of a burst less than the
\* window after the one before it, none with a successful login in between
NoActivity ==
  [loginAttempts |-> [key \in TrackingKeys |-> Null], activityLogs |-> <<>>,
   burstAlerts |-> [key \in TrackingKeys |-> 0]]

\* the agreement the PDF generation has created for a lease: no status
\* written, nobody has signed
DraftAgreement ==
  [status |-> "DRAFT", landlordSigned |-> FALSE, tenantSigned |-> FALSE,
   expiresAt |-> Null]

\* a table the specification does not follow: its queries are answered by
\* the request's env
NotKept == [kept |-> FALSE, scored |-> FALSE, rows |-> <<>>]

\* a table that is followed, empty
Kept == [kept |-> TRUE, scored |-> FALSE, rows |-> <<>>]

\* the login history followed with its riskScore column
KeptWithScores == [kept |-> TRUE, scored |-> TRUE, rows |-> <<>>]

Init ==
  /\ now = 0
  /\ loginAttempts = [u \in Users |-> 0]
  /\ lockedUntil = [u \in Users |-> Null]
  /\ mfaEnabled \in [Users -> BOOLEAN]
  /\ password = [u \in Users |-> "pwA"]
  /\ otpCodes = <<>>
  /\ jwts = {}
  /\ blacklistedTokens = {}
  /\ last = NoRequest
  /\ calls = <<>>
  /\ loggedOut = {}
  /\ risk = NoRisk
  /\ loginHistory = NotKept
  /\ userDevice = NotKept
  /\ rentalAgreement = DraftAgreement
  /\ agreementAuditLog = <<>>
  /\ activityLogger = NoActivity

\* time passes between requests
Tick(maxTicks) ==
  /\ now + TickStep <= maxTicks * TickStep
  /\ now' = now + TickStep
  /\ last' = NoRequest
  /\ UNCHANGED <<loginAttempts, lockedUntil, mfaEnabled, password, otpCodes,
                 jwts, blacklistedTokens, calls, loggedOut, risk,
                 loginHistory, userDevice, rentalAgreement, agreementAuditLog,
                 activityLogger>>

\* a handler that hands out a token stays within the model's token bound
CanIssue(token) == token \in jwts \/ Cardinality(jwts) < MaxTokens

\* a handler that calls createOtp stays within the model's table bound
CanCreateOtp == Len(otpCodes) < MaxOtps

\* the row recordLoginAttempt adds to the login history
HistoryRow(userId, success) == Some([userId |-> userId, success |-> success])

\* mutant: the MFA branch is never taken
MfaRequired_Never(userId) == FALSE

\* POST /login's test of user.mfaEnabled
MfaRequired(userId) == mfaEnabled[userId]

\* ------------------------------------------------------------------------
\* notification email.  A request meets a mail provider that delivers or
\* not, and a login history and device table, not kept here, that make
\* checkSuspiciousPatterns report MULTIPLE_FAILURES and checkDevice report
\* a new device (alerting) or not
\* ------------------------------------------------------------------------

Mails == [delivers : BOOLEAN, alerting : BOOLEAN, deviceHash : {"d1"}]

\* the mail is delivered and the history gives no cause for an alert
Quiet == [delivers |-> TRUE, alerting |-> FALSE, deviceHash |-> "d1"]

\* mutant: a failed delivery is thrown to the caller
SendEmail_Throws(delivers) == [sent |-> delivers, threw |-> ~delivers]

\* emailService.sendEmail (and sendOtpEmail, which returns its result): true
\* or false; a failure of the provider is caught inside and never thrown
SendEmail(delivers) == [sent |-> delivers, threw |-> FALSE]

\* the line sendEmail writes to the log: sent, or failed to send
EmailLog(delivers) == Some(SendEmail(delivers).sent)

\* securityAlert.service's sendAlertEmail: sendEmail under its own try/catch;
\* it does not look at what sendEmail returns and reports true unless
\* something was thrown
SendAlertEmail(delivers) ==
  IF SendEmail(delivers).threw THEN FALSE ELSE TRUE

\* createAlert with sendEmail: true: the securityAlert row it leaves
CreateAlert(userId, type, delivers) ==
  Some([userId |-> userId, type |-> type,
        emailSent |-> SendAlertEmail(delivers)])

\* ------------------------------------------------------------------------
\* suspiciousActivity.service: calculateRiskScore
\* ------------------------------------------------------------------------
Min(a, b) == IF a <= b THEN a ELSE b

\* what calculateRiskScore's three queries and the clock may give it
RiskInputs ==
  [knownDevice : BOOLEAN, recentFailures : 0..MaxRecentFailures,
   hour : 0..23, ipFailures : 0..MaxIpFailures, scored : {<<>>}]

\* which of the three queries throws (0: none): userDevice.findFirst,
\* loginHistory.count for the account, loginHistory.count for the IP
Throws == 0..3

\* if (!knownDevice) riskScore += 30
NewDeviceRisk(knownDevice) == IF ~knownDevice THEN 30 ELSE 0

\* mutant: the failures are not capped
FailureRisk_Uncapped(recentFailures) == recentFailures * 10

\* riskScore += Math.min(recentFailures * 10, 30)
FailureRisk(recentFailures) == Min(recentFailures * 10, 30)

\* mutant: the hour drifts with the time the service has been up
UnusualHour_Drift(hour) ==
  ((hour + now) % 24) >= 2 /\ ((hour + now) % 24) <= 5

\* hour >= 2 && hour <= 5, of new Date().getHours()
UnusualHour(hour) == hour >= 2 /\ hour <= 5

\* if (ipFailures > 5) riskScore += 25
IpRisk(ipFailures) == IF ipFailures > 5 THEN 25 ELSE 0

\* mutant: nothing is capped
CalculateRiskScore_Uncapped(knownDevice, recentFailures, hour, ipFailures, throws) ==
  NewDeviceRisk(knownDevice) + recentFailures * 10
    + (IF UnusualHour(hour) THEN 15 ELSE 0) + IpRisk(ipFailures)

\* calculateRiskScore: riskScore is added to query by query; a query that
\* throws ends the try block with what has been added so far
CalculateRiskScore(knownDevice, recentFailures, hour, ipFailures, throws) ==
  LET afterDevice == IF throws = 1 THEN 0 ELSE NewDeviceRisk(knownDevice)
      afterFailures ==
        IF throws \in {1, 2} THEN afterDevice
        ELSE afterDevice + FailureRisk(recentFailures)
      afterHour ==
        IF throws \in {1, 2} THEN afterFailures
        ELSE afterFailures + (IF UnusualHour(hour) THEN 15 ELSE 0)
      afterIp ==
        IF throws \in {1, 2, 3} THEN afterHour
        ELSE afterHour + IpRisk(ipFailures)
  IN Min(afterIp, 100)

\* ------------------------------------------------------------------------
\* suspiciousActivity.service: login history and devices
\* ------------------------------------------------------------------------

\* recordLoginAttempt's prisma.loginHistory.create: the table afterwards
LoginHistoryCreate(table, userId, success, riskScore) ==
  IF table.kept
    THEN [table EXCEPT !.rows = Append(@, [userId |-> userId,
                                           success |-> success,
                                           riskScore |->
                                             IF table.scored
                                               THEN Some(riskScore)
                                               ELSE Null,
                                           createdAt |-> now])]
    ELSE table

\* a handler that calls recordLoginAttempt stays within the model's bound
CanRecordLogin ==
  loginHistory.kept => Len(loginHistory.rows) < MaxHistory

\* checkSuspiciousPatterns' count: failed rows of the user with
\* createdAt >= Date.now() - 5 * 60 * 1000
RecentFailures(table, userId) ==
  Cardinality({i \in DOMAIN table.rows :
                 /\ table.rows[i].userId = userId
                 /\ ~table.rows[i].success
                 /\ table.rows[i].createdAt >= now - FailureWindowMinutes})

\* mutant: the failure being handled is not counted
MultipleFailures_Before(table, userId, env) ==
  IF table.kept THEN RecentFailures(table, userId) - 1 >= FailureThreshold
  ELSE env.alerting

\* checkSuspiciousPatterns: whether its alerts hold a MULTIPLE_FAILURES
MultipleFailures(table, userId, env) ==
  IF table.kept THEN RecentFailures(table, userId) >= FailureThreshold
  ELSE env.alerting

\* checkDevice's findFirst({ where: { userId, deviceHash } }): the rows it
\* may return; empty when it returns null
ExistingDevice(table, userId, deviceHash) ==
  {i \in DOMAIN table.rows : /\ table.rows[i].userId = userId
                             /\ table.rows[i].deviceHash = deviceHash}

\* checkDevice when findFirst returned row i (0: null): what it returns and
\* the table afterwards
CheckDeviceFound(table, userId, deviceHash, i) ==
  IF i # 0
    THEN [isNew |-> FALSE, device |-> deviceHash,
          table |-> [table EXCEPT !.rows[i].lastUsedAt = now]]
    ELSE [isNew |-> TRUE, device |-> deviceHash,
          table |-> [table EXCEPT !.rows =
                       Append(@, [userId |-> userId,
                                  deviceHash |-> deviceHash,
                                  lastUsedAt |-> now])]]

\* checkDevice(userId, userAgent, ipAddress), the device hash standing for
\* generateDeviceHash(userAgent, ipAddress)
CheckDevice(table, userId, env) ==
  IF ~table.kept
    THEN [isNew |-> env.alerting, device |-> env.deviceHash, table |-> table]
  ELSE LET existing == ExistingDevice(table, userId, env.deviceHash) IN
    IF existing = {}
      THEN CheckDeviceFound(table, userId, env.deviceHash, 0)
      ELSE CheckDeviceFound(table, userId, env.deviceHash,
                            CHOOSE i \in existing : TRUE)

\* recordLoginAttempt's call of calculateRiskScore on the tables as they
\* are when it is called, all queries answering: the requests come from one
\* address, and the server's clock, which started at noon, gives the hour
RiskScoreOfAttempt(history, devices, userId, env) ==
  IF ~history.scored \/ ~devices.kept THEN 0
  ELSE CalculateRiskScore(
         ExistingDevice(devices, userId, env.deviceHash) # {},
         Cardinality({i \in DOMAIN history.rows :
                        /\ history.rows[i].userId = userId
                        /\ ~history.rows[i].success
                        /\ history.rows[i].createdAt
                             >= now - RiskFailureWindowMinutes}),
         (12 + (now \div 60)) % 24,
         Cardinality({i \in DOMAIN history.rows :
                        /\ ~history.rows[i].success
                        /\ history.rows[i].createdAt
                             >= now - IpFailureWindowMinutes}),
         0)

\* a property of a JavaScript object: undefined (null here) when the object
\* has no property of that name
Property(object, name) ==
  IF name \in DOMAIN object THEN Some(object[name]) ELSE Null

\* what an if takes for true
Truthy(value) == value # Null /\ value[1] # FALSE

\* POST /mfa/verify: if (deviceCheck.isNew)
NewDeviceOnMfa(deviceCheck) == Truthy(Property(deviceCheck, "isNew"))

\* POST /login: const { isNewDevice, device } = await checkDevice(...);
\* if (isNewDevice && device)
NewDeviceOnLogin(deviceCheck) ==
  /\ Truthy(Property(deviceCheck, "isNewDevice"))
  /\ Truthy(Property(deviceCheck, "device"))

\* mutant: the alert is raised one failure before the lock
AccountLockedAlert_Early(attemptResult) ==
  attemptResult.locked \/ attemptResult.attemptsRemaining <= 1

\* POST /login's failure path: if (attemptResult.locked), where it calls
\* alertAccountLocked
AccountLockedAlert(attemptResult) == attemptResult.locked

\* ------------------------------------------------------------------------
\* POST /login
\* ------------------------------------------------------------------------
Login(email, pw, env) ==
  LET found == FindUserByEmail(email) IN
  IF found = Null THEN
    /\ last' = [NoRequest EXCEPT !.op = "login", !.pw = Some(pw), !.status = 401,
                                 !.message = "Invalid credentials"]
    /\ UNCHANGED <<now, loginAttempts, lockedUntil, mfaEnabled, password,
                   otpCodes, jwts, blacklistedTokens, calls, loggedOut, risk,
                   loginHistory, userDevice, rentalAgreement,
                   agreementAuditLog, activityLogger>>
  ELSE LET u == found[1]
           lockStatus == CheckAccountLock(u)
           attemptResult == RecordFailedAttempt(u)
       IN
    IF lockStatus.locked THEN
      /\ last' = [NoRequest EXCEPT !.op = "login", !.pw = Some(pw), !.userId = found,
                    !.status = 423,
                    !.message = "Account is temporarily locked"]
      /\ UNCHANGED <<now, loginAttempts, lockedUntil, mfaEnabled, password,
                     otpCodes, jwts, blacklistedTokens, calls, loggedOut,
                     risk, loginHistory, userDevice, rentalAgreement,
                     agreementAuditLog, activityLogger>>
    ELSE IF pw # password[u] THEN
      /\ CanRecordLogin
      /\ loginHistory' =
           LoginHistoryCreate(loginHistory, u, FALSE,
             RiskScoreOfAttempt(loginHistory, userDevice, u, env))
      /\ loginAttempts' = [loginAttempts EXCEPT ![u] = attemptResult.loginAttempts]
      /\ lockedUntil' = [lockedUntil EXCEPT ![u] = attemptResult.lockedUntil]
      /\ last' = [NoRequest EXCEPT !.op = "login", !.pw = Some(pw), !.userId = found,
                    !.compared = TRUE, !.history = HistoryRow(u, FALSE),
                    !.status = IF attemptResult.locked THEN 423 ELSE 401,
                    !.message = IF attemptResult.locked
                                  THEN "Too many failed attempts"
                                  ELSE "Invalid credentials",
                    !.attemptsRemaining =
                        IF attemptResult.locked THEN Null
                        ELSE Some(attemptResult.attemptsRemaining),
                    !.alert =
                        IF AccountLockedAlert(attemptResult)
                          THEN CreateAlert(u, "ACCOUNT_LOCKED", env.delivers)
                        ELSE IF MultipleFailures(loginHistory', u, env)
                          THEN CreateAlert(u, "MULTIPLE_FAILURES", env.delivers)
                        ELSE Null,
                    !.emailed =
                        IF \/ AccountLockedAlert(attemptResult)
                           \/ MultipleFailures(loginHistory', u, env)
                          THEN EmailLog(env.delivers) ELSE Null]
      /\ UNCHANGED <<now, mfaEnabled, password, otpCodes, jwts,
                     blacklistedTokens, calls, loggedOut, risk, userDevice,
                     rentalAgreement, agreementAuditLog, activityLogger>>
    ELSE IF MfaRequired(u) THEN
      LET mfaSessionToken == Sign(u, "mfa_pending", MfaTokenMinutes) IN
      /\ CanCreateOtp
      /\ CanIssue(mfaSessionToken)
      /\ \E otp \in GenerateOtpCodes :
           otpCodes' = CreateOtp(otpCodes, u, "LOGIN", otp)
      /\ jwts' = jwts \cup {mfaSessionToken}
      \* await emailService.sendOtpEmail(...): were it to throw, the
      \* handler's catch would answer 500
      /\ last' = IF SendEmail(env.delivers).threw
                  THEN [NoRequest EXCEPT !.op = "login", !.pw = Some(pw),
                          !.userId = found, !.compared = TRUE, !.status = 500,
                          !.message = "Internal server error",
                          !.emailed = EmailLog(env.delivers)]
                  ELSE [NoRequest EXCEPT !.op = "login", !.pw = Some(pw),
                          !.userId = found,
                          !.compared = TRUE, !.status = 200,
                          !.message = "MFA verification required",
                          !.token = Some(mfaSessionToken),
                          !.emailed = EmailLog(env.delivers)]
      /\ UNCHANGED <<now, loginAttempts, lockedUntil, mfaEnabled, password,
                     blacklistedTokens, calls, loggedOut, risk, loginHistory,
                     userDevice, rentalAgreement, agreementAuditLog,
                     activityLogger>>
    ELSE
      LET token == Sign(u, "session", JwtExpiresMinutes)
          deviceCheck == CheckDevice(userDevice, u, env)
      IN
      /\ CanIssue(token)
      /\ CanRecordLogin
      /\ loginAttempts' = [loginAttempts EXCEPT
                            ![u] = ResetLoginAttempts(u).loginAttempts]
      /\ lockedUntil' = [lockedUntil EXCEPT
                          ![u] = ResetLoginAttempts(u).lockedUntil]
      /\ loginHistory' =
           LoginHistoryCreate(loginHistory, u, TRUE,
             RiskScoreOfAttempt(loginHistory, userDevice, u, env))
      /\ userDevice' = deviceCheck.table
      /\ jwts' = jwts \cup {token}
      /\ last' = [NoRequest EXCEPT !.op = "login", !.pw = Some(pw), !.userId = found,
                    !.compared = TRUE, !.history = HistoryRow(u, TRUE),
                    !.status = 200, !.message = "Login successful",
                    !.token = Some(token),
                    !.device = Some([hash |-> env.deviceHash,
                                     isNew |-> deviceCheck.isNew]),
                    !.alert = IF NewDeviceOnLogin(deviceCheck)
                                THEN CreateAlert(u, "NEW_DEVICE", env.delivers)
                                ELSE Null,
                    !.emailed = IF NewDeviceOnLogin(deviceCheck)
                                  THEN EmailLog(env.delivers) ELSE Null]
      /\ UNCHANGED <<now, mfaEnabled, password, otpCodes, blacklistedTokens,
                     calls, loggedOut, risk, rentalAgreement,
                     agreementAuditLog, activityLogger>>

\* /mfa/verify's and /mfa/resend's test of the session token
IsMfaPending(decoded) == decoded.type = "mfa_pending"

\* the user whose OTP /mfa/verify checks
MfaVerifyUser(decoded) == decoded.userId

\* ------------------------------------------------------------------------
\* POST /mfa/verify
\* ------------------------------------------------------------------------
MfaVerify(sessionToken, otp, env) ==
  IF ~JwtVerify(sessionToken) THEN
    /\ last' = [NoRequest EXCEPT !.op = "mfaVerify", !.status = 401,
                  !.message = "Invalid or expired session token"]
    /\ UNCHANGED <<now, loginAttempts, lockedUntil, mfaEnabled, password,
                   otpCodes, jwts, blacklistedTokens, calls, loggedOut, risk,
                   loginHistory, userDevice, rentalAgreement,
                   agreementAuditLog, activityLogger>>
  ELSE IF ~IsMfaPending(sessionToken) THEN
    /\ last' = [NoRequest EXCEPT !.op = "mfaVerify", !.status = 401,
                  !.message = "Invalid session token type"]
    /\ UNCHANGED <<now, loginAttempts, lockedUntil, mfaEnabled, password,
                   otpCodes, jwts, blacklistedTokens, calls, loggedOut, risk,
                   loginHistory, userDevice, rentalAgreement,
                   agreementAuditLog, activityLogger>>
  ELSE
    \E i \in FoundRows(otpCodes, MfaVerifyUser(sessionToken), "LOGIN") :
      LET u == sessionToken.userId
          verifyResult == VerifyOtp(otpCodes, MfaVerifyUser(sessionToken),
                                    otp, "LOGIN", i)
          result == Some([userId |-> MfaVerifyUser(sessionToken),
                          type |-> "LOGIN", code |-> otp,
                          success |-> verifyResult.success,
                          message |-> verifyResult.message])
          token == Sign(u, "session", JwtExpiresMinutes)
          deviceCheck == CheckDevice(userDevice, u, env)
      IN
      IF ~verifyResult.success THEN
        /\ otpCodes' = verifyResult.records
        /\ last' = [NoRequest EXCEPT !.op = "mfaVerify", !.userId = Some(u),
                      !.status = 400,
                      !.message = verifyResult.message, !.otp = result]
        /\ UNCHANGED <<now, loginAttempts, lockedUntil, mfaEnabled, password,
                       jwts, blacklistedTokens, calls, loggedOut, risk,
                       loginHistory, userDevice, rentalAgreement,
                       agreementAuditLog, activityLogger>>
      ELSE
        /\ CanIssue(token)
        /\ CanRecordLogin
        /\ otpCodes' = verifyResult.records
        /\ loginAttempts' = [loginAttempts EXCEPT
                              ![u] = ResetLoginAttempts(u).loginAttempts]
        /\ lockedUntil' = [lockedUntil EXCEPT
                            ![u] = ResetLoginAttempts(u).lockedUntil]
        /\ userDevice' = deviceCheck.table
        /\ loginHistory' =
             LoginHistoryCreate(loginHistory, u, TRUE,
               RiskScoreOfAttempt(loginHistory, deviceCheck.table, u, env))
        /\ jwts' = jwts \cup {token}
        /\ last' = [NoRequest EXCEPT !.op = "mfaVerify", !.userId = Some(u),
                      !.status = 200,
                      !.message = "MFA verification successful",
                      !.otp = result, !.history = HistoryRow(u, TRUE),
                      !.token = Some(token),
                      !.device = Some([hash |-> env.deviceHash,
                                       isNew |-> deviceCheck.isNew]),
                      !.alert = IF NewDeviceOnMfa(deviceCheck)
                                  THEN CreateAlert(u, "NEW_DEVICE", env.delivers)
                                  ELSE Null,
                      !.emailed = IF NewDeviceOnMfa(deviceCheck)
                                    THEN EmailLog(env.delivers) ELSE Null]
        /\ UNCHANGED <<now, mfaEnabled, password, blacklistedTokens, calls,
                       loggedOut, risk, rentalAgreement, agreementAuditLog,
                       activityLogger>>

\* ------------------------------------------------------------------------
\* POST /mfa/resend
\* ------------------------------------------------------------------------
MfaResend(sessionToken, env) ==
  IF ~JwtVerify(sessionToken) \/ ~IsMfaPending(sessionToken) THEN
    /\ last' = [NoRequest EXCEPT !.op = "mfaResend", !.status = 401,
                  !.message = IF ~JwtVerify(sessionToken)
                                THEN "Invalid or expired session token"
                                ELSE "Invalid session token type"]
    /\ UNCHANGED <<now, loginAttempts, lockedUntil, mfaEnabled, password,
                   otpCodes, jwts, blacklistedTokens, calls, loggedOut, risk,
                   loginHistory, userDevice, rentalAgreement,
                   agreementAuditLog, activityLogger>>
  ELSE
    /\ CanCreateOtp
    /\ \E otp \in GenerateOtpCodes :
         otpCodes' = CreateOtp(otpCodes, sessionToken.userId, "LOGIN", otp)
    /\ last' = IF SendEmail(env.delivers).threw
                THEN [NoRequest EXCEPT !.op = "mfaResend",
                        !.userId = Some(sessionToken.userId), !.status = 500,
                        !.message = "Internal server error",
                        !.emailed = EmailLog(env.delivers)]
                ELSE [NoRequest EXCEPT !.op = "mfaResend",
                        !.userId = Some(sessionToken.userId), !.status = 200,
                        !.message = "A new OTP has been sent to your email",
                        !.emailed = EmailLog(env.delivers)]
    /\ UNCHANGED <<now, loginAttempts, lockedUntil, mfaEnabled, password,
                   jwts, blacklistedTokens, calls, loggedOut, risk,
                   loginHistory, userDevice, rentalAgreement,
                   agreementAuditLog, activityLogger>>

\* ------------------------------------------------------------------------
\* POST /forgot-password, /forgot-password/verify, /forgot-password/reset
\* ------------------------------------------------------------------------
\* genericResponse, sent with status 200
GenericResponse ==
  [NoRequest EXCEPT !.op = "forgotPassword", !.status = 200,
                    !.message = "If an account with that email exists"]

ForgotPassword(email) ==
  LET found == FindUserByEmail(email) IN
  IF found = Null \/ (found # Null /\ CheckAccountLock(found[1]).locked) THEN
    /\ last' = [GenericResponse EXCEPT !.userId = found]
    /\ UNCHANGED <<now, loginAttempts, lockedUntil, mfaEnabled, password,
                   otpCodes, jwts, blacklistedTokens, calls, loggedOut, risk,
                   loginHistory, userDevice, rentalAgreement,
                   agreementAuditLog, activityLogger>>
  ELSE
    /\ CanCreateOtp
    /\ \E otp \in GenerateOtpCodes :
         otpCodes' = CreateOtp(otpCodes, found[1], "PASSWORD_RESET", otp)
    /\ last' = [GenericResponse EXCEPT
                  !.userId = found,
                  !.data = Some([expiresAt |-> now + OTP_EXPIRY_MINUTES])]
    /\ UNCHANGED <<now, loginAttempts, lockedUntil, mfaEnabled, password,
                   jwts, blacklistedTokens, calls, loggedOut, risk,
                   loginHistory, userDevice, rentalAgreement,
                   agreementAuditLog, activityLogger>>

ForgotPasswordVerify(email, otp) ==
  LET found == FindUserByEmail(email) IN
  IF found = Null THEN
    /\ last' = [NoRequest EXCEPT !.op = "forgotPasswordVerify",
                  !.status = 400, !.message = "Invalid or expired reset code"]
    /\ UNCHANGED <<now, loginAttempts, lockedUntil, mfaEnabled, password,
                   otpCodes, jwts, blacklistedTokens, calls, loggedOut, risk,
                   loginHistory, userDevice, rentalAgreement,
                   agreementAuditLog, activityLogger>>
  ELSE
    \E i \in FoundRows(otpCodes, found[1], "PASSWORD_RESET") :
      LET u == found[1]
          verifyResult == VerifyOtp(otpCodes, u, otp, "PASSWORD_RESET", i)
          result == Some([userId |-> u, type |-> "PASSWORD_RESET",
                          code |-> otp,
                          success |-> verifyResult.success,
                          message |-> verifyResult.message])
          resetToken == Sign(u, "password_reset", ResetTokenMinutes)
      IN
      /\ verifyResult.success => CanIssue(resetToken)
      /\ otpCodes' = verifyResult.records
      /\ jwts' = IF verifyResult.success THEN jwts \cup {resetToken} ELSE jwts
      /\ last' = [NoRequest EXCEPT !.op = "forgotPasswordVerify",
                    !.userId = found, !.otp = result,
                    !.status = IF verifyResult.success THEN 200 ELSE 400,
                    !.message = IF verifyResult.success
                                  THEN "Code verified successfully"
                                  ELSE verifyResult.message,
                    !.token = IF verifyResult.success THEN Some(resetToken)
                              ELSE Null]
      /\ UNCHANGED <<now, loginAttempts, lockedUntil, mfaEnabled, password,
                     blacklistedTokens, calls, loggedOut, risk, loginHistory,
                     userDevice, rentalAgreement, agreementAuditLog,
                     activityLogger>>

\* /forgot-password/reset's test of the reset token
IsPasswordReset(decoded) == decoded.type = "password_reset"

ForgotPasswordReset(resetToken, newPassword) ==
  IF ~JwtVerify(resetToken) \/ ~IsPasswordReset(resetToken) THEN
    /\ last' = [NoRequest EXCEPT !.op = "forgotPasswordReset",
                  !.status = 400,
                  !.message = IF ~JwtVerify(resetToken)
                                THEN "Reset link has expired"
                                ELSE "Invalid reset token"]
    /\ UNCHANGED <<now, loginAttempts, lockedUntil, mfaEnabled, password,
                   otpCodes, jwts, blacklistedTokens, calls, loggedOut, risk,
                   loginHistory, userDevice, rentalAgreement,
                   agreementAuditLog, activityLogger>>
  ELSE
    LET u == resetToken.userId IN
    /\ password' = [password EXCEPT ![u] = newPassword]
    /\ loginAttempts' = [loginAttempts EXCEPT ![u] = 0]
    /\ lockedUntil' = [lockedUntil EXCEPT ![u] = Null]
    /\ last' = [NoRequest EXCEPT !.op = "forgotPasswordReset",
                  !.userId = Some(u), !.status = 200,
                  !.message = "Password has been reset successfully"]
    /\ UNCHANGED <<now, mfaEnabled, otpCodes, jwts, blacklistedTokens, calls,
                   loggedOut, risk, loginHistory, userDevice, rentalAgreement,
                   agreementAuditLog, activityLogger>>

\* ------------------------------------------------------------------------
\* PATCH /api/admin/users/:id/unlock
\* ------------------------------------------------------------------------
AdminUnlock(id) ==
  /\ lockedUntil' = [lockedUntil EXCEPT ![id] = Null]
  /\ loginAttempts' = [loginAttempts EXCEPT ![id] = 0]
  /\ last' = [NoRequest EXCEPT !.op = "adminUnlock", !.userId = Some(id),
                !.status = 200, !.message = "User account unlocked"]
  /\ UNCHANGED <<now, mfaEnabled, password, otpCodes, jwts, blacklistedTokens,
                 calls, loggedOut, risk, loginHistory, userDevice,
                 rentalAgreement, agreementAuditLog, activityLogger>>

\* ------------------------------------------------------------------------
\* the auth middleware and the endpoints that check the bearer token
\* ------------------------------------------------------------------------

\* middleware/auth.js, auth: 0 when it calls next(), else the status it sends
Auth(token) ==
  IF IsBlacklisted(token) THEN 401
  ELSE IF ~JwtVerify(token) THEN 401
  ELSE 0

\* the token test of GET /me, /change-password, /mfa/enable and /mfa/disable:
\* 0 when the handler goes on, else the status it sends
CheckBearer(token) == IF JwtVerify(token) THEN 0 ELSE 401

\* POST /logout, behind the auth middleware
Logout(token) ==
  /\ blacklistedTokens' = IF Auth(token) = 0
                            THEN blacklistedTokens \cup {token}
                            ELSE blacklistedTokens
  /\ last' = [NoRequest EXCEPT !.op = "logout", !.tokenType = Some(token.type),
                !.userId = IF Auth(token) = 0 THEN Some(token.userId) ELSE Null,
                !.status = IF Auth(token) = 0 THEN 200 ELSE Auth(token),
                !.message = IF Auth(token) = 0 THEN "Logged out successfully"
                            ELSE "Access denied"]
  /\ loggedOut' = IF Auth(token) = 0 THEN loggedOut \cup {token}
                  ELSE loggedOut
  /\ UNCHANGED <<now, loginAttempts, lockedUntil, mfaEnabled, password,
                 otpCodes, jwts, calls, risk, loginHistory, userDevice,
                 rentalAgreement, agreementAuditLog, activityLogger>>

\* GET /me
Me(token) ==
  /\ last' = [NoRequest EXCEPT !.op = "me", !.tokenType = Some(token.type),
                !.userId = IF CheckBearer(token) = 0 THEN Some(token.userId)
                           ELSE Null,
                !.status = IF CheckBearer(token) = 0 THEN 200 ELSE 401,
                !.message = IF CheckBearer(token) = 0 THEN "" ELSE "Invalid token"]
  /\ UNCHANGED <<now, loginAttempts, lockedUntil, mfaEnabled, password,
                 otpCodes, jwts, blacklistedTokens, calls, loggedOut, risk,
                 loginHistory, userDevice, rentalAgreement, agreementAuditLog,
                 activityLogger>>

\* POST /change-password
ChangePassword(token, currentPassword, newPassword) ==
  LET u == token.userId
      st == IF CheckBearer(token) # 0 THEN 401
            ELSE IF currentPassword # password[u] THEN 400
            ELSE 200
  IN
  /\ password' = IF st = 200 THEN [password EXCEPT ![u] = newPassword]
                 ELSE password
  /\ last' = [NoRequest EXCEPT !.op = "changePassword",
                !.tokenType = Some(token.type),
                !.userId = IF st = 401 THEN Null ELSE Some(u),
                !.compared = (st # 401), !.status = st,
                !.message = IF st = 401 THEN "Invalid token"
                            ELSE IF st = 400 THEN "Current password is incorrect"
                            ELSE "Password changed successfully"]
  /\ UNCHANGED <<now, loginAttempts, lockedUntil, mfaEnabled, otpCodes, jwts,
                 blacklistedTokens, calls, loggedOut, risk, loginHistory,
                 userDevice, rentalAgreement, agreementAuditLog,
                 activityLogger>>

\* POST /mfa/enable
MfaEnable(token) ==
  /\ mfaEnabled' = IF CheckBearer(token) = 0
                     THEN [mfaEnabled EXCEPT ![token.userId] = TRUE]
                     ELSE mfaEnabled
  /\ last' = [NoRequest EXCEPT !.op = "mfaEnable", !.tokenType = Some(token.type),
                !.userId = IF CheckBearer(token) = 0 THEN Some(token.userId)
                           ELSE Null,
                !.status = IF CheckBearer(token) = 0 THEN 200 ELSE 401,
                !.message = IF CheckBearer(token) = 0
                              THEN "MFA has been enabled" ELSE "Invalid token"]
  /\ UNCHANGED <<now, loginAttempts, lockedUntil, password, otpCodes, jwts,
                 blacklistedTokens, calls, loggedOut, risk, loginHistory,
                 userDevice, rentalAgreement, agreementAuditLog,
                 activityLogger>>

\* POST /mfa/disable
MfaDisable(token, pw) ==
  LET u == token.userId
      st == IF CheckBearer(token) # 0 THEN 401
            ELSE IF pw # password[u] THEN 400
            ELSE 200
  IN
  /\ mfaEnabled' = IF st = 200 THEN [mfaEnabled EXCEPT ![u] = FALSE]
                   ELSE mfaEnabled
  /\ last' = [NoRequest EXCEPT !.op = "mfaDisable", !.tokenType = Some(token.type),
                !.userId = IF st = 401 THEN Null ELSE Some(u),
                !.compared = (st # 401), !.status = st,
                !.message = IF st = 401 THEN "Invalid token"
                            ELSE IF st = 400 THEN "Invalid password"
                            ELSE "MFA has been disabled"]
  /\ UNCHANGED <<now, loginAttempts, lockedUntil, password, otpCodes, jwts,
                 blacklistedTokens, calls, loggedOut, risk, loginHistory,
                 userDevice, rentalAgreement, agreementAuditLog,
                 activityLogger>>


\* ------------------------------------------------------------------------
\* tokenBlacklist's cleanup (setInterval, every hour, and at start-up)
\* ------------------------------------------------------------------------

\* the expiresAt /logout stores with a blacklisted token: the token's own exp
BlacklistExpiresAt(token) == token.exp

\* mutant: entries are dropped ahead of their expiry
CleanupRemoves_Early(token) == BlacklistExpiresAt(token) < now + MfaTokenMinutes

\* cleanupExpiredTokens' test of an entry
CleanupRemoves(token) == BlacklistExpiresAt(token) < now

CleanupExpiredTokens ==
  /\ blacklistedTokens' = {t \in blacklistedTokens : ~CleanupRemoves(t)}
  /\ last' = [NoRequest EXCEPT !.op = "cleanupExpiredTokens"]
  /\ UNCHANGED <<now, loginAttempts, lockedUntil, mfaEnabled, password,
                 otpCodes, jwts, calls, loggedOut, risk, loginHistory,
                 userDevice, rentalAgreement, agreementAuditLog,
                 activityLogger>>

\* ------------------------------------------------------------------------
\* suspiciousActivity.service: calculateRiskScore and recordLoginAttempt
\* ------------------------------------------------------------------------
\* recordLoginAttempt: the score is calculated and stored on the new
\* login-history row (kept here with the query that threw while scoring)
RecordLoginAttempt(throws) ==
  /\ Len(risk.scored) < MaxScored
  /\ risk' = [risk EXCEPT !.scored =
                Append(@, [throws |-> throws, createdAt |-> now,
                           riskScore |->
                             CalculateRiskScore(risk.knownDevice,
                               risk.recentFailures, risk.hour,
                               risk.ipFailures, throws)])]
  /\ UNCHANGED <<now, loginAttempts, lockedUntil, mfaEnabled, password,
                 otpCodes, jwts, blacklistedTokens, last, calls, loggedOut,
                 loginHistory, userDevice, rentalAgreement, agreementAuditLog,
                 activityLogger>>

\* ------------------------------------------------------------------------
\* OtpService called directly (as its callers other than the routes
\* modelled above do), for any user and type
\* ------------------------------------------------------------------------
CreateOtpCall(userId, type) ==
  /\ CanCreateOtp
  /\ \E otp \in GenerateOtpCodes :
       otpCodes' = CreateOtp(otpCodes, userId, type, otp)
  /\ last' = [NoRequest EXCEPT !.op = "createOtp", !.userId = Some(userId)]
  /\ UNCHANGED <<now, loginAttempts, lockedUntil, mfaEnabled, password, jwts,
                 blacklistedTokens, calls, loggedOut, risk, loginHistory,
                 userDevice, rentalAgreement, agreementAuditLog,
                 activityLogger>>

VerifyOtpCall(userId, code, type) ==
  \E i \in FoundRows(otpCodes, userId, type) :
    LET verifyResult == VerifyOtp(otpCodes, userId, code, type, i) IN
    /\ otpCodes' = verifyResult.records
    /\ last' = [NoRequest EXCEPT !.op = "verifyOtp", !.userId = Some(userId),
                  !.otp = Some([userId |-> userId, type |-> type,
                                code |-> code,
                                success |-> verifyResult.success,
                                message |-> verifyResult.message])]
    /\ UNCHANGED <<now, loginAttempts, lockedUntil, mfaEnabled, password,
                   jwts, blacklistedTokens, calls, loggedOut, risk,
                   loginHistory, userDevice, rentalAgreement,
                   agreementAuditLog, activityLogger>>

\* ------------------------------------------------------------------------
\* OtpService.verifyOtp request by request: each await of a database call
\* is a step, and other requests run between the steps
\* ------------------------------------------------------------------------

\* the answer of a verifyOtp call
OtpResult(success, message) == Some([success |-> success, message |-> message])

\* await prisma.otpCode.findFirst(...): a new call reads the row it will work
\* on (otpRecord, 0 for null) and, with it, the row's attempts
VerifyOtpFind(userId, code, type) ==
  /\ Len(calls) < MaxOtpCalls
  /\ \E i \in FoundRows(otpCodes, userId, type) :
       calls' = Append(calls,
         [op |-> "verifyOtp", userId |-> userId, code |-> code, type |-> type,
          otpRecord |-> i,
          attempts |-> IF i = 0 THEN 0 ELSE otpCodes[i].attempts,
          pc |-> IF i = 0 THEN "done" ELSE "found",
          result |-> IF i = 0 THEN OtpResult(FALSE, "No valid OTP found")
                     ELSE Null])
  /\ UNCHANGED <<now, loginAttempts, lockedUntil, mfaEnabled, password,
                 otpCodes, jwts, blacklistedTokens, last, loggedOut, risk,
                 loginHistory, userDevice, rentalAgreement, agreementAuditLog,
                 activityLogger>>

\* the expiry and attempts tests on the row read, then
\* await prisma.otpCode.update(...) of usedAt or of attempts
VerifyOtpIncrement(c) ==
  LET call == calls[c]
      i == call.otpRecord
  IN
  /\ call.op = "verifyOtp" /\ call.pc = "found"
  /\ IF OtpExpired(otpCodes[i]) THEN
       /\ calls' = [calls EXCEPT ![c].pc = "done",
                      ![c].result = OtpResult(FALSE, "OTP has expired")]
       /\ UNCHANGED otpCodes
     ELSE IF AttemptsExceeded(call.attempts) THEN
       /\ otpCodes' = [otpCodes EXCEPT ![i].usedAt = Some(now)]
       /\ calls' = [calls EXCEPT ![c].pc = "done",
                      ![c].result =
                        OtpResult(FALSE, "Maximum OTP attempts exceeded")]
     ELSE
       /\ otpCodes' = [otpCodes EXCEPT ![i].attempts = call.attempts + 1]
       /\ calls' = [calls EXCEPT ![c].pc = "incremented"]
  /\ UNCHANGED <<now, loginAttempts, lockedUntil, mfaEnabled, password, jwts,
                 blacklistedTokens, last, loggedOut, risk, loginHistory,
                 userDevice, rentalAgreement, agreementAuditLog,
                 activityLogger>>

\* await this.verifyOtpHash(code, otpRecord.code), then
\* await prisma.otpCode.update(...) of usedAt, and the answer
VerifyOtpMarkUsed(c) ==
  LET call == calls[c]
      i == call.otpRecord
  IN
  /\ call.op = "verifyOtp" /\ call.pc = "incremented"
  /\ IF ~VerifyOtpHash(call.code, otpCodes[i].code) THEN
       /\ calls' = [calls EXCEPT ![c].pc = "done",
                      ![c].result = OtpResult(FALSE, "Invalid OTP")]
       /\ UNCHANGED otpCodes
     ELSE
       /\ otpCodes' = [otpCodes EXCEPT ![i].usedAt = Some(now)]
       /\ calls' = [calls EXCEPT ![c].pc = "done",
                      ![c].result =
                        OtpResult(TRUE, "OTP verified successfully")]
  /\ UNCHANGED <<now, loginAttempts, lockedUntil, mfaEnabled, password, jwts,
                 blacklistedTokens, last, loggedOut, risk, loginHistory,
                 userDevice, rentalAgreement, agreementAuditLog,
                 activityLogger>>

\* ------------------------------------------------------------------------
\* POST /login request by request, for requests whose password is wrong:
\* each database call of otpService is a step, and other requests run
\* between the steps
\* ------------------------------------------------------------------------

\* prisma.user.findUnique, checkAccountLock and bcrypt.compare: a new request
\* is turned down (unknown email, locked account) or has its password
\* compared
LoginCheckLock(email, pw) ==
  LET found == FindUserByEmail(email)
      call == [op |-> "login", userId |-> found, pw |-> pw, attempts |-> 0,
               pc |-> "done", compared |-> FALSE, status |-> 401,
               attemptsRemaining |-> Null]
  IN
  /\ Len(calls) < MaxLoginCalls
  /\ found # Null => pw # password[found[1]]
  /\ calls' = Append(calls,
       IF found = Null THEN call
       ELSE IF CheckAccountLock(found[1]).locked
         THEN [call EXCEPT !.status = 423]
       ELSE [call EXCEPT !.pc = "compared", !.compared = TRUE, !.status = 0])
  /\ UNCHANGED <<now, loginAttempts, lockedUntil, mfaEnabled, password,
                 otpCodes, jwts, blacklistedTokens, last, loggedOut, risk,
                 loginHistory, userDevice, rentalAgreement, agreementAuditLog,
                 activityLogger>>

\* recordFailedAttempt: await prisma.user.findUnique({ select: loginAttempts })
RecordFailedAttemptRead(c) ==
  /\ calls[c].op = "login" /\ calls[c].pc = "compared"
  /\ calls' = [calls EXCEPT ![c].pc = "read",
                 ![c].attempts = loginAttempts[calls[c].userId[1]]]
  /\ UNCHANGED <<now, loginAttempts, lockedUntil, mfaEnabled, password,
                 otpCodes, jwts, blacklistedTokens, last, loggedOut, risk,
                 loginHistory, userDevice, rentalAgreement, agreementAuditLog,
                 activityLogger>>

\* recordFailedAttempt: await prisma.user.update({ data: updateData }), and
\* the answer /login gives from what it returns
RecordFailedAttemptWrite(c) ==
  LET u == calls[c].userId[1]
      newAttempts == calls[c].attempts + 1
      shouldLock == ShouldLock(newAttempts)
  IN
  /\ calls[c].op = "login" /\ calls[c].pc = "read"
  /\ loginAttempts' = [loginAttempts EXCEPT ![u] = newAttempts]
  /\ lockedUntil' = IF shouldLock
                      THEN [lockedUntil EXCEPT
                              ![u] = Some(now + LOCKOUT_DURATION_MINUTES)]
                      ELSE lockedUntil
  /\ calls' = [calls EXCEPT ![c].pc = "done",
                 ![c].status = IF shouldLock THEN 423 ELSE 401,
                 ![c].attemptsRemaining =
                     IF shouldLock THEN Null
                     ELSE Some(Max(0, MAX_LOGIN_ATTEMPTS - newAttempts))]
  /\ UNCHANGED <<now, mfaEnabled, password, otpCodes, jwts, blacklistedTokens,
                 last, loggedOut, risk, loginHistory, userDevice,
                 rentalAgreement, agreementAuditLog, activityLogger>>

\* ------------------------------------------------------------------------
\* specifications
\* ------------------------------------------------------------------------

\* a client submits at most MaxGuesses wrong codes against one OTP
WithinGuesses(userId, type, otp) ==
  \A i \in FindFirstUnused(otpCodes, userId, type) :
    VerifyOtpHash(otp, otpCodes[i].code) \/ otpCodes[i].attempts < MaxGuesses

\* the email/password login with lockout and MFA
Next ==
  \/ Tick(MaxTicks)
  \/ \E email \in Emails, pw \in Passwords : Login(email, pw, Quiet)
  \/ \E t \in jwts, otp \in Codes :
       WithinGuesses(t.userId, "LOGIN", otp) /\ MfaVerify(t, otp, Quiet)
  \/ \E t \in jwts : MfaResend(t, Quiet)
  \/ \E id \in Users : AdminUnlock(id)

Spec == Init /\ [][Next]_vars

\* the login together with the forgotten-password flow
NextReset ==
  \/ Tick(MaxResetTicks)
  \/ \E email \in Emails, pw \in Passwords : Login(email, pw, Quiet)
  \/ \E t \in jwts, otp \in GenerateOtpCodes : MfaVerify(t, otp, Quiet)
  \/ \E t \in jwts : MfaResend(t, Quiet)
  \/ \E id \in Users : AdminUnlock(id)
  \/ \E email \in Emails : ForgotPassword(email)
  \/ \E email \in Emails, otp \in GenerateOtpCodes :
       ForgotPasswordVerify(email, otp)
  \/ \E t \in jwts, pw \in Passwords : ForgotPasswordReset(t, pw)

SpecReset == Init /\ [][NextReset]_vars

\* the tokens the flows hand out, presented to the token-checking endpoints
NextBearer ==
  \/ Tick(MaxOtpTicks)
  \/ \E email \in Emails, pw \in Passwords : Login(email, pw, Quiet)
  \/ \E email \in Emails : ForgotPassword(email)
  \/ \E email \in Emails, otp \in GenerateOtpCodes :
       ForgotPasswordVerify(email, otp)
  \/ \E t \in jwts : Logout(t)
  \/ \E t \in jwts : Me(t)
  \/ \E t \in jwts, cur \in Passwords, new \in Passwords :
       ChangePassword(t, cur, new)
  \/ \E t \in jwts : MfaEnable(t)
  \/ \E t \in jwts, pw \in Passwords : MfaDisable(t, pw)

InitBearer == Init /\ mfaEnabled = [u \in Users |-> TRUE]

SpecBearer == InitBearer /\ [][NextBearer]_vars

\* OtpService alone
NextOtp ==
  \/ Tick(MaxOtpTicks)
  \/ \E u \in Users, type \in OtpTypes : CreateOtpCall(u, type)
  \/ \E u \in Users, code \in Codes, type \in OtpTypes :
       WithinGuesses(u, type, code) /\ VerifyOtpCall(u, code, type)

SpecOtp == Init /\ [][NextOtp]_vars

\* OtpService with verifyOtp calls that overlap
NextOtpRace ==
  \/ Tick(MaxResetTicks)
  \/ \E u \in Users : CreateOtpCall(u, "LOGIN")
  \/ \E u \in Users, code \in Codes :
       WithinGuesses(u, "LOGIN", code) /\ VerifyOtpFind(u, code, "LOGIN")
  \/ \E c \in DOMAIN calls : VerifyOtpIncrement(c)
  \/ \E c \in DOMAIN calls : VerifyOtpMarkUsed(c)

SpecOtpRace == Init /\ [][NextOtpRace]_vars

\* OtpService alone, with any number of guesses against a code
NextOtpGuess ==
  \/ Tick(MaxOtpTicks)
  \/ \E u \in Users : CreateOtpCall(u, "LOGIN")
  \/ \E u \in Users, code \in Codes : VerifyOtpCall(u, code, "LOGIN")

SpecOtpGuess == Init /\ [][NextOtpGuess]_vars

\* wrong-password logins that overlap, within one lock window (the clock
\* stands still) and with nothing that resets the counter
NextLoginRace ==
  \/ \E email \in Emails, pw \in Passwords : LoginCheckLock(email, pw)
  \/ \E c \in DOMAIN calls : RecordFailedAttemptRead(c)
  \/ \E c \in DOMAIN calls : RecordFailedAttemptWrite(c)

SpecLoginRace == Init /\ [][NextLoginRace]_vars

\* logout, the blacklist and its cleanup
NextBlacklist ==
  \/ Tick(MaxTicks)
  \/ \E email \in Emails, pw \in Passwords : Login(email, pw, Quiet)
  \/ \E t \in jwts : Logout(t)
  \/ CleanupExpiredTokens

SpecBlacklist == Init /\ [][NextBlacklist]_vars

\* the risk score, for every answer the queries and the clock may give
InitRisk ==
  /\ now = 0
  /\ loginAttempts = [u \in Users |-> 0]
  /\ lockedUntil = [u \in Users |-> Null]
  /\ mfaEnabled = [u \in Users |-> FALSE]
  /\ password = [u \in Users |-> "pwA"]
  /\ otpCodes = <<>>
  /\ jwts = {}
  /\ blacklistedTokens = {}
  /\ last = NoRequest
  /\ calls = <<>>
  /\ loggedOut = {}
  /\ risk \in RiskInputs
  /\ loginHistory = NotKept
  /\ userDevice = NotKept
  /\ rentalAgreement = DraftAgreement
  /\ agreementAuditLog = <<>>
  /\ activityLogger = NoActivity

NextRisk ==
  \/ Tick(MaxResetTicks)
  \/ \E throws \in Throws : RecordLoginAttempt(throws)

SpecRisk == InitRisk /\ [][NextRisk]_vars

\* ------------------------------------------------------------------------
\* properties
\* ------------------------------------------------------------------------

\* the step just taken was POST /login for account u
LoginStep(u) == last'.op = "login" /\ last'.userId = Some(u)

\* the step just taken was POST /login for account u with a wrong password
WrongLoginStep(u) == LoginStep(u) /\ last'.pw # Some(password[u])

\* account u is inside a lock window
InLock(u) == lockedUntil[u] # Null /\ now < lockedUntil[u][1]

\* the lock window of account u has been entered and has run out
LockElapsed(u) == lockedUntil[u] # Null /\ now >= lockedUntil[u][1]

\* the response just sent carries a full session token
IssuedSession == last.token # Null /\ last.token[1].type = "session"

\* C1: from an unlocked account with counter 0, the first four wrong
\* passwords are answered 401 and leave the account unlocked, the fifth
\* locks it until 15 minutes after that request, and every login made
\* inside the lock window, whatever its password, is answered 423 and hands
\* out no token.
C1_LockAfterFiveFailures ==
  [][\A u \in Users :
       /\ (WrongLoginStep(u) /\ ~InLock(u)
             /\ loginAttempts[u] < MAX_LOGIN_ATTEMPTS - 1)
          => /\ loginAttempts'[u] = loginAttempts[u] + 1
             /\ lockedUntil'[u] = lockedUntil[u]
             /\ last'.status = 401
       /\ (WrongLoginStep(u) /\ ~InLock(u)
             /\ loginAttempts[u] = MAX_LOGIN_ATTEMPTS - 1)
          => /\ loginAttempts'[u] = MAX_LOGIN_ATTEMPTS
             /\ lockedUntil'[u] = Some(now + LOCKOUT_DURATION_MINUTES)
             /\ last'.status = 423
       /\ (LoginStep(u) /\ InLock(u))
          => /\ last'.status = 423
             /\ last'.token = Null
             /\ jwts' = jwts
  ]_vars

\* C1 witness: five failures have locked the account and a later login with
\* the correct password was turned away as locked
C1_Witness ==
  \E u \in Users :
    /\ last.op = "login" /\ last.userId = Some(u)
    /\ last.pw = Some(password[u])
    /\ last.status = 423
    /\ loginAttempts[u] = MAX_LOGIN_ATTEMPTS
    /\ lockedUntil[u] = Some(LOCKOUT_DURATION_MINUTES)
    /\ now > 0

\* C2: once a lock has run out, one wrong password does not lock the
\* account again.
C2_NoRelockAfterTimeout ==
  [][\A u \in Users :
       (WrongLoginStep(u) /\ LockElapsed(u))
       => /\ last'.status # 423
          /\ ~(lockedUntil'[u] # Null /\ now < lockedUntil'[u][1])
  ]_vars

\* C3: after the lock has run out, a login with the correct password is
\* accepted: without MFA it hands out the session token and clears counter
\* and lock; with MFA it asks for the OTP, and the /mfa/verify whose OTP is
\* verified hands out the session token and clears counter and lock.
C3_LoginAfterLockElapsed ==
  [][\A u \in Users :
       /\ (LoginStep(u) /\ last'.pw = Some(password[u]) /\ LockElapsed(u)
             /\ ~mfaEnabled[u])
          => /\ last'.status = 200
             /\ last'.token # Null /\ last'.token[1].type = "session"
             /\ loginAttempts'[u] = 0
             /\ lockedUntil'[u] = Null
       /\ (LoginStep(u) /\ last'.pw = Some(password[u]) /\ LockElapsed(u)
             /\ mfaEnabled[u])
          => /\ last'.status = 200
             /\ last'.token # Null /\ last'.token[1].type = "mfa_pending"
       /\ (last'.op = "mfaVerify" /\ last'.userId = Some(u)
             /\ last'.otp # Null /\ last'.otp[1].success)
          => /\ last'.status = 200
             /\ last'.token # Null /\ last'.token[1].type = "session"
             /\ loginAttempts'[u] = 0
             /\ lockedUntil'[u] = Null
  ]_vars

\* C3 witness: the lock set by five failures has run out, the counter still
\* stands at five or more, and a login with the correct password was
\* accepted (here up to the OTP challenge)
C3_Witness ==
  \E u \in Users :
    /\ last.op = "login" /\ last.userId = Some(u)
    /\ last.pw = Some(password[u])
    /\ last.status = 200
    /\ LockElapsed(u)
    /\ loginAttempts[u] >= MAX_LOGIN_ATTEMPTS

\* C4: a login inside the lock window is turned away before the password is
\* compared; it changes neither the counter nor lockedUntil and writes no
\* login-history row.
C4_LockedLoginChangesNothing ==
  [][\A u \in Users :
       (LoginStep(u) /\ InLock(u))
       => /\ ~last'.compared
          /\ last'.history = Null
          /\ loginAttempts' = loginAttempts
          /\ lockedUntil' = lockedUntil
  ]_vars

\* C4 witness: a wrong password sent some time into the lock window was
\* turned away as locked
C4_Witness ==
  \E u \in Users :
    /\ last.op = "login" /\ last.userId = Some(u)
    /\ last.pw # Some(password[u])
    /\ last.message = "Account is temporarily locked"
    /\ now > 0 /\ InLock(u)

\* C5: whenever /login or /mfa/verify hands out a session token, the
\* account's counter is 0 and its lockedUntil is null afterwards.
C5_TokenImpliesCounterReset ==
  (last.op \in {"login", "mfaVerify"} /\ IssuedSession)
  => /\ loginAttempts[last.token[1].userId] = 0
     /\ lockedUntil[last.token[1].userId] = Null

\* C5 witness: /mfa/verify handed out a session token
C5_Witness == last.op = "mfaVerify" /\ IssuedSession

C6_OnlyLoginResets ==
  [][\A u \in Users :
       (loginAttempts[u] # 0 /\ loginAttempts'[u] = 0)
       => \/ /\ LoginStep(u) /\ last'.pw = Some(password[u])
             /\ ~mfaEnabled[u] /\ last'.status = 200
          \/ /\ last'.op = "mfaVerify" /\ last'.userId = Some(u)
             /\ last'.otp # Null /\ last'.otp[1].success
  ]_vars

\* C6 as amended: the counter goes to 0 only in a password login without
\* MFA that succeeded, in a /mfa/verify whose OTP was verified, in a
\* /forgot-password/reset that was accepted, or in the admin unlock; a
\* failed or locked login and an OTP resend never reset it.
C6_ResetOnlyByLoginResetUnlock ==
  [][\A u \in Users :
       (loginAttempts[u] # 0 /\ loginAttempts'[u] = 0)
       => \/ /\ LoginStep(u) /\ last'.pw = Some(password[u])
             /\ ~mfaEnabled[u] /\ last'.status = 200
          \/ /\ last'.op = "mfaVerify" /\ last'.userId = Some(u)
             /\ last'.otp # Null /\ last'.otp[1].success
             /\ last'.otp[1].type = "LOGIN" /\ last'.otp[1].userId = u
          \/ /\ last'.op = "forgotPasswordReset" /\ last'.userId = Some(u)
             /\ last'.status = 200
          \/ /\ last'.op = "adminUnlock" /\ last'.userId = Some(u)
  ]_vars

\* C6 witness: a password reset was accepted for an account and its counter
\* stands at 0 with the lock cleared
C6_Witness ==
  \E u \in Users :
    /\ last.op = "forgotPasswordReset" /\ last.userId = Some(u)
    /\ last.status = 200
    /\ loginAttempts[u] = 0 /\ lockedUntil[u] = Null

\* C8: a token handed out before authentication is complete (mfa_pending,
\* password_reset) is refused by the auth middleware (here in front of
\* /logout) and by /me, /change-password, /mfa/enable and /mfa/disable.
C8_PendingTokenRefused ==
  (/\ last.op \in {"logout", "me", "changePassword", "mfaEnable", "mfaDisable"}
   /\ last.tokenType \in {Some("mfa_pending"), Some("password_reset")})
  => last.status = 401

\* the rows of (userId, type) that are unused
UnusedRows(userId, type) ==
  {i \in DOMAIN otpCodes : /\ otpCodes[i].userId = userId
                           /\ otpCodes[i].type = type
                           /\ otpCodes[i].usedAt = Null}

\* C9: for every user and type at most one row is unused and unexpired, and
\* every row but the newest of its user and type has been marked used.
C9_AtMostOneActiveOtp ==
  \A u \in Users, type \in OtpTypes :
    /\ Cardinality({i \in UnusedRows(u, type) :
                      now <= otpCodes[i].expiresAt}) <= 1
    /\ \A i, j \in DOMAIN otpCodes :
         (/\ i < j
          /\ otpCodes[i].userId = u /\ otpCodes[i].type = type
          /\ otpCodes[j].userId = u /\ otpCodes[j].type = type)
         => otpCodes[i].usedAt # Null

\* C9 witness: a second code was created for a user and type while the first
\* was still unverified; the first is marked used, the second is active
C9_Witness ==
  \E i, j \in DOMAIN otpCodes :
    /\ i < j
    /\ otpCodes[i].userId = otpCodes[j].userId
    /\ otpCodes[i].type = otpCodes[j].type
    /\ otpCodes[i].attempts = 0 /\ otpCodes[i].usedAt # Null
    /\ otpCodes[j].usedAt = Null /\ now <= otpCodes[j].expiresAt

\* C10: a verifyOtp that finds the pending code past its expiresAt reports
\* it as expired and changes nothing, whatever code was submitted; a
\* verifyOtp that succeeds has marked used a code that had not expired.
C10_ExpiredNeverVerifies ==
  [][(last'.op = "verifyOtp" /\ last'.otp # Null)
     => LET r == last'.otp[1]
            rows == UnusedRows(r.userId, r.type)
        IN /\ (rows # {} /\ \A i \in rows : now > otpCodes[i].expiresAt)
              => /\ ~r.success
                 /\ r.message = "OTP has expired"
                 /\ otpCodes' = otpCodes
           /\ r.success
              => \E i \in rows : /\ now <= otpCodes[i].expiresAt
                                 /\ otpCodes'[i].usedAt # Null
  ]_vars

\* C10 witness: the correct code was submitted after expiresAt and was
\* reported as expired
C10_Witness ==
  /\ last.op = "verifyOtp" /\ last.otp # Null
  /\ last.otp[1].message = "OTP has expired"
  /\ \E i \in UnusedRows(last.otp[1].userId, last.otp[1].type) :
       /\ otpCodes[i].code = <<"bcrypt", last.otp[1].code>>
       /\ now > otpCodes[i].expiresAt


\* the verifyOtp calls answered with success for the stored code (row) i
Verified(i) ==
  {c \in DOMAIN calls : /\ calls[c].op = "verifyOtp"
                        /\ calls[c].otpRecord = i
                        /\ calls[c].result # Null
                        /\ calls[c].result[1].success}

\* C11: a stored one-time code is single-use: at most one verifyOtp call on
\* it is ever answered with success, whatever the order and the overlap of
\* the verifyOtp requests.
C11_SingleUse ==
  \A i \in DOMAIN otpCodes : Cardinality(Verified(i)) <= 1


\* the step is a verifyOtp call of OtpService, on the code of user u and type
VerifyOtpStep(u, type) ==
  /\ last'.op = "verifyOtp" /\ last'.otp # Null
  /\ last'.otp[1].userId = u /\ last'.otp[1].type = type

\* C12: after MAX_OTP_ATTEMPTS (5) wrong guesses against one code no later
\* verifyOtp call on it succeeds, even with the correct code: every wrong
\* guess against a pending code adds one to its attempts, attempts never go
\* down and a used code never becomes unused, and a call that finds the
\* code with 5 attempts fails and marks it used (unless the code has
\* expired, which it then stays), so that a fresh code is needed.
C12_ExhaustedNeverVerifies ==
  [][ /\ \A i \in DOMAIN otpCodes :
           /\ otpCodes'[i].attempts >= otpCodes[i].attempts
           /\ otpCodes[i].usedAt # Null => otpCodes'[i].usedAt # Null
      /\ \A u \in Users, type \in OtpTypes :
           VerifyOtpStep(u, type) =>
             \A i \in FindFirstUnused(otpCodes, u, type) :
               /\ last'.otp[1].message = "Invalid OTP"
                    => otpCodes'[i].attempts = otpCodes[i].attempts + 1
               /\ otpCodes[i].attempts >= MAX_OTP_ATTEMPTS
                    => /\ ~last'.otp[1].success
                       /\ otpCodes'[i].usedAt # Null \/ OtpExpired(otpCodes[i])
  ]_vars

\* C12 witness: the correct code was submitted against a code that had taken
\* 5 wrong guesses, and was turned down
C12_Witness ==
  /\ last.op = "verifyOtp" /\ last.otp # Null
  /\ last.otp[1].message = "Maximum OTP attempts exceeded"
  /\ \E i \in DOMAIN otpCodes :
       /\ otpCodes[i].userId = last.otp[1].userId
       /\ otpCodes[i].type = last.otp[1].type
       /\ otpCodes[i].attempts = MAX_OTP_ATTEMPTS
       /\ otpCodes[i].usedAt # Null
       /\ VerifyOtpHash(last.otp[1].code, otpCodes[i].code)

\* C13: an OTP code allows at most 3 verification attempts (README): a
\* verifyOtp call on a code that has taken 3 attempts does not succeed, even
\* with the correct code.
C13_ThreeAttempts ==
  [][ \A u \in Users, type \in OtpTypes :
        VerifyOtpStep(u, type) =>
          \A i \in FindFirstUnused(otpCodes, u, type) :
            otpCodes[i].attempts >= ReadmeMaxOtpAttempts
              => ~last'.otp[1].success
  ]_vars

\* the /login requests for account u whose password was compared
Compared(u) ==
  {c \in DOMAIN calls : /\ calls[c].op = "login" /\ calls[c].userId = Some(u)
                        /\ calls[c].compared}

\* those of them whose failure recordFailedAttempt has processed
Processed(u) == {c \in Compared(u) : calls[c].pc = "done"}

\* C14: when wrong-password logins for one account overlap, every failure is
\* counted (loginAttempts is the number of failures processed since the
\* counter stood at 0), the account is locked as soon as 5 failures have
\* been processed, and no more than 5 passwords are compared.
C14_EveryFailureCounted ==
  \A u \in Users :
    /\ loginAttempts[u] = Cardinality(Processed(u))
    /\ Cardinality(Processed(u)) >= MAX_LOGIN_ATTEMPTS
         => CheckAccountLock(u).locked
    /\ Cardinality(Compared(u)) <= MAX_LOGIN_ATTEMPTS

\* what the client sees of /login's answer
LoginResponse(r) == <<r.status, r.message, r.attemptsRemaining>>

\* C15: the answer to a failed login does not reveal whether the account
\* exists: a login turned down for an existing account (wrong password, or
\* locked) gets the status and message that the same request gets for an
\* email no account has.
C15_NoAccountEnumeration ==
  (last.op = "login" /\ last.userId # Null /\ last.status # 200)
    => \E email \in Emails :
         /\ FindUserByEmail(email) = Null
         /\ LET response == LoginResponse(last)
                pw == last.pw[1]
            IN ENABLED (Login(email, pw, Quiet) /\ LoginResponse(last') = response)

\* C16: once /logout has blacklisted a token, the auth middleware turns down
\* every later request that carries it, whenever cleanupExpiredTokens has
\* run in between: a token logged out is never let through again.
C16_LoggedOutStaysRejected ==
  \A t \in loggedOut : Auth(t) # 0

\* C16 witness: the cleanup has just run; it has dropped one logged-out token
\* (which no longer verifies) and kept another, which would still verify
C16_Witness ==
  /\ last.op = "cleanupExpiredTokens"
  /\ \E t \in loggedOut : t \notin blacklistedTokens /\ ~JwtVerify(t)
  /\ \E t \in loggedOut : t \in blacklistedTokens /\ JwtVerify(t)

\* the evaluations in which every query answered
Scored == {i \in DOMAIN risk.scored : risk.scored[i].throws = 0}

C18_SumOfBuckets ==
  \A i \in Scored :
    /\ risk.scored[i].riskScore =
         (IF risk.knownDevice THEN 0 ELSE 30)
         + (IF risk.recentFailures >= 3 THEN 30 ELSE 10 * risk.recentFailures)
         + (IF risk.hour \in 2..5 THEN 15 ELSE 0)
         + (IF risk.ipFailures > 5 THEN 25 ELSE 0)
    /\ (~risk.knownDevice /\ risk.hour = 3 /\ risk.recentFailures = 2
        /\ risk.ipFailures = 0) => risk.scored[i].riskScore = 65

\* C18 witness: the example has been scored
C18_Witness ==
  /\ ~risk.knownDevice /\ risk.hour = 3 /\ risk.recentFailures = 2
  /\ risk.ipFailures = 0
  /\ \E i \in Scored : risk.scored[i].riskScore = 65

\* C19: whatever the inputs, and whichever query fails, the score returned
\* and stored on the login-history row is an integer from 0 to 100.
C19_ScoreInRange ==
  \A i \in DOMAIN risk.scored : risk.scored[i].riskScore \in 0..100

\* C19 witness: all buckets at their most, scored 100
C19_Witness ==
  /\ ~risk.knownDevice /\ risk.recentFailures > 3 /\ UnusualHour(risk.hour)
  /\ risk.ipFailures > 5
  /\ \E i \in Scored : risk.scored[i].riskScore = 100

\* ------------------------------------------------------------------------
\* notification emails that the provider fails to deliver
\* ------------------------------------------------------------------------

\* the login with MFA, each email delivered or not
NextMail ==
  \/ Tick(MaxResetTicks)
  \/ \E email \in Emails, pw \in Passwords, env \in Mails :
       Login(email, pw, env)
  \/ \E t \in jwts, otp \in GenerateOtpCodes, env \in Mails :
       MfaVerify(t, otp, env)
  \/ \E t \in jwts, env \in Mails : MfaResend(t, env)

SpecMail == Init /\ [][NextMail]_vars

\* what the caller is answered, and the account's counter and lock
Verdict(r, attempts, locks) ==
  <<r.status, r.message, r.token, r.attemptsRemaining, attempts, locks>>

\* C20: whatever /login, /mfa/verify or /mfa/resend does when the email it
\* sends (the OTP, or the account-locked, multiple-failures or new-device
\* alert) is not delivered, the same request could have done with the email
\* delivered, and the other way round: same status, message and token
\* answered, same loginAttempts and lockedUntil.
C20_DeliveryDoesNotChangeVerdict ==
  [][\A env \in Mails :
       LET other == [env EXCEPT !.delivers = ~env.delivers] IN
       /\ \A email \in Emails, pw \in Passwords :
            Login(email, pw, env) =>
              \E verdict \in {Verdict(last', loginAttempts', lockedUntil')} :
                ENABLED (/\ Login(email, pw, other)
                         /\ Verdict(last', loginAttempts', lockedUntil')
                              = verdict)
       /\ \A t \in jwts, otp \in GenerateOtpCodes :
            MfaVerify(t, otp, env) =>
              \E verdict \in {Verdict(last', loginAttempts', lockedUntil')} :
                ENABLED (/\ MfaVerify(t, otp, other)
                         /\ Verdict(last', loginAttempts', lockedUntil')
                              = verdict)
       /\ \A t \in jwts :
            MfaResend(t, env) =>
              \E verdict \in {Verdict(last', loginAttempts', lockedUntil')} :
                ENABLED (/\ MfaResend(t, other)
                         /\ Verdict(last', loginAttempts', lockedUntil')
                              = verdict)]_vars

\* C20 witness: the fifth wrong password locked the account and the alert's
\* email was not delivered
C20_Witness ==
  /\ last.op = "login" /\ last.status = 423
  /\ last.alert # Null /\ last.alert[1].type = "ACCOUNT_LOCKED"
  /\ last.emailed = Some(FALSE)
  /\ \E u \in Users : last.userId = Some(u) /\ lockedUntil[u] # Null

\* ------------------------------------------------------------------------
\* security alerts
\* ------------------------------------------------------------------------

\* the request just handled created an alert of this type for the user
Alerted(r, userId, type) ==
  r.alert # Null /\ r.alert[1].userId = userId /\ r.alert[1].type = type

\* the device fingerprints requests come with
DeviceHashes == {"d1", "d2"}

\* requests whose mail is delivered, from either device
Requests == [delivers : {TRUE}, alerting : {FALSE}, deviceHash : DeviceHashes]

\* the login history and the device table are followed
InitAlerts ==
  /\ now = 0
  /\ loginAttempts = [u \in Users |-> 0]
  /\ lockedUntil = [u \in Users |-> Null]
  /\ mfaEnabled \in [Users -> BOOLEAN]
  /\ password = [u \in Users |-> "pwA"]
  /\ otpCodes = <<>>
  /\ jwts = {}
  /\ blacklistedTokens = {}
  /\ last = NoRequest
  /\ calls = <<>>
  /\ loggedOut = {}
  /\ risk = NoRisk
  /\ loginHistory = Kept
  /\ userDevice = Kept
  /\ rentalAgreement = DraftAgreement
  /\ agreementAuditLog = <<>>
  /\ activityLogger = NoActivity

\* the login with MFA, with the alerts its history and devices give rise to
NextAlerts ==
  \/ Tick(MaxOtpTicks)
  \/ \E email \in Emails, pw \in Passwords, env \in Requests :
       Login(email, pw, env)
  \/ \E t \in jwts, otp \in GenerateOtpCodes, env \in Requests :
       MfaVerify(t, otp, env)

SpecAlerts == InitAlerts /\ [][NextAlerts]_vars

\* C21: a request creates an ACCOUNT_LOCKED alert for an account exactly
\* when it is a /login with a wrong password that takes the account from
\* not locked to locked; a /login turned away because the account is locked
\* creates none.
C21_LockedAlertOnLockEntry ==
  [][\A u \in Users :
       /\ Alerted(last', u, "ACCOUNT_LOCKED")
            <=> /\ last'.op = "login" /\ last'.userId = Some(u)
                /\ last'.compared /\ last'.token = Null
                /\ ~CheckAccountLock(u).locked
                /\ lockedUntil'[u] # Null /\ lockedUntil'[u][1] > now'
       /\ (last'.op = "login" /\ last'.userId = Some(u)
           /\ CheckAccountLock(u).locked) => last'.alert = Null]_vars

\* C21 witness: a wrong password just locked the account and the alert is
\* there; the account had been locked before and that lock had run out
C21_Witness ==
  \E u \in Users :
    /\ Alerted(last, u, "ACCOUNT_LOCKED") /\ last.status = 423
    /\ loginAttempts[u] > MAX_LOGIN_ATTEMPTS
    /\ lockedUntil[u] = Some(now + LOCKOUT_DURATION_MINUTES)

\* the request just handled is a login that succeeded, on either path
LoggedIn(r) ==
  /\ r.op \in {"login", "mfaVerify"} /\ r.status = 200
  /\ r.token # Null /\ r.token[1].type = "session"

\* the device table has a row for the user and the fingerprint
Recorded(table, userId, deviceHash) ==
  \E i \in DOMAIN table.rows : /\ table.rows[i].userId = userId
                                /\ table.rows[i].deviceHash = deviceHash

\* C22: a successful login, by /login without MFA or by /mfa/verify, creates
\* a NEW_DEVICE alert when the device table had no row for the account and
\* the request's fingerprint, and creates no alert when it had one.
C22_NewDeviceAlert ==
  [][\A u \in Users :
       (LoggedIn(last') /\ last'.userId = Some(u)) =>
         (Alerted(last', u, "NEW_DEVICE")
            <=> ~Recorded(userDevice, u, last'.device[1].hash))]_vars

\* C23: a /login with a wrong password that does not lock the account creates
\* a MULTIPLE_FAILURES alert exactly when the login history, the row of this
\* failure included, holds at least 3 failed rows of the account that are
\* at most 5 minutes old; no other request creates one.
C23_MultipleFailuresAlert ==
  [][\A u \in Users :
       LET failed == {i \in DOMAIN loginHistory'.rows :
                        /\ loginHistory'.rows[i].userId = u
                        /\ ~loginHistory'.rows[i].success
                        /\ now' - loginHistory'.rows[i].createdAt <= 5}
           wrongPassword == /\ last'.op = "login" /\ last'.userId = Some(u)
                            /\ last'.status = 401 /\ last'.compared
       IN /\ wrongPassword =>
               (Alerted(last', u, "MULTIPLE_FAILURES")
                  <=> Cardinality(failed) >= 3)
          /\ Alerted(last', u, "MULTIPLE_FAILURES") => wrongPassword]_vars

\* C23 witness: the third failure within 5 minutes is alerted, after a
\* success in between had set the counter back
C23_Witness ==
  \E u \in Users :
    /\ Alerted(last, u, "MULTIPLE_FAILURES") /\ last.status = 401
    /\ last.attemptsRemaining = Some(MAX_LOGIN_ATTEMPTS - 1)
    /\ now > 0

\* C24: a /login answered 401 for a wrong password has counted the failure
\* (counter i, one more than before, i < 5) and reports 5 - i attempts
\* remaining, so 4, 3, 2, 1 for the first four failures from a counter of 0;
\* no answer reports a negative number.
C24_AttemptsRemaining ==
  [][\A u \in Users :
       /\ (last'.op = "login" /\ last'.userId = Some(u) /\ last'.compared
           /\ last'.status = 401) =>
             /\ loginAttempts'[u] = loginAttempts[u] + 1
             /\ loginAttempts'[u] \in 1..4
             /\ last'.attemptsRemaining = Some(5 - loginAttempts'[u])
       /\ last'.attemptsRemaining # Null => last'.attemptsRemaining[1] >= 0]_vars

\* C24 witness: the fourth wrong password in a row, answered with 1 left
C24_Witness ==
  \E u \in Users :
    /\ last.op = "login" /\ last.status = 401 /\ loginAttempts[u] = 4
    /\ last.attemptsRemaining = Some(1)

\* C30: a request handled while the account is locked (now before
\* lockedUntil) is answered no session token for it, be it a /login or a
\* /mfa/verify with an mfa_pending token and an OTP from before the lock.
C30_NoSessionWhileLocked ==
  [][\A u \in Users :
       CheckAccountLock(u).locked =>
         ~(/\ last'.userId = Some(u) /\ last'.token # Null
           /\ last'.token[1].type = "session")]_vars

\* ------------------------------------------------------------------------
\* checkDevice, one step per awaited database call
\* ------------------------------------------------------------------------

\* await prisma.userDevice.findFirst(...): a new call reads the row it will
\* update (existingDevice, 0 for null)
CheckDeviceFind(userId, deviceHash) ==
  /\ Len(calls) < MaxDeviceCalls
  /\ \E i \in IF ExistingDevice(userDevice, userId, deviceHash) = {}
               THEN {0}
               ELSE ExistingDevice(userDevice, userId, deviceHash) :
       calls' = Append(calls,
         [op |-> "checkDevice", userId |-> userId, deviceHash |-> deviceHash,
          existingDevice |-> i, pc |-> "found", result |-> Null])
  /\ UNCHANGED <<now, loginAttempts, lockedUntil, mfaEnabled, password,
                 otpCodes, jwts, blacklistedTokens, last, loggedOut, risk,
                 loginHistory, userDevice, rentalAgreement, agreementAuditLog,
                 activityLogger>>

\* await prisma.userDevice.update(...) of the row read, or
\* await prisma.userDevice.create(...) when none was read
CheckDeviceWrite(c) ==
  LET call == calls[c]
      deviceCheck == CheckDeviceFound(userDevice, call.userId,
                                      call.deviceHash, call.existingDevice)
  IN
  /\ call.op = "checkDevice" /\ call.pc = "found"
  /\ userDevice' = deviceCheck.table
  /\ calls' = [calls EXCEPT ![c].pc = "done",
                 ![c].result = Some([isNew |-> deviceCheck.isNew])]
  /\ UNCHANGED <<now, loginAttempts, lockedUntil, mfaEnabled, password,
                 otpCodes, jwts, blacklistedTokens, last, loggedOut, risk,
                 loginHistory, rentalAgreement, agreementAuditLog,
                 activityLogger>>

\* checkDevice calls of concurrent requests
NextDevice ==
  \/ Tick(MaxResetTicks)
  \/ \E userId \in Users, deviceHash \in DeviceHashes :
       CheckDeviceFind(userId, deviceHash)
  \/ \E c \in DOMAIN calls : CheckDeviceWrite(c)

SpecDevice == InitAlerts /\ [][NextDevice]_vars

\* C25: however checkDevice calls are ordered and interleaved, the device
\* table holds at most one row for a user and a device hash, and only the
\* call that met no row reports a new device and adds one.
C25_OneRecordPerDevice ==
  \A userId \in Users, deviceHash \in DeviceHashes :
    Cardinality(ExistingDevice(userDevice, userId, deviceHash)) <= 1

\* ------------------------------------------------------------------------
\* DigitalAgreementService and the admin agreement routes: one agreement,
\* of a lease between Landlord and Tenant
\* ------------------------------------------------------------------------
Landlord == "landlord1"
Tenant == "tenant1"
Admin == "admin1"
Parties == {Landlord, Tenant}

\* expiresInDays of POST /:id/initiate: the default, one day, and a signing
\* period that is over when it starts
ExpiresInDays == {7, 1, -1}

\* a handler that logs stays within the model's bound
CanLog(rows) == Len(agreementAuditLog) + rows <= MaxAudit

\* mutant: actions nobody performed are not logged
LogAuditAction_Performed(log, action, performedBy) ==
  IF performedBy = Null THEN log
  ELSE Append(log, [action |-> action, performedBy |-> performedBy])

\* logAuditAction(agreementId, action, performedBy): the table afterwards
LogAuditAction(log, action, performedBy) ==
  Append(log, [action |-> action, performedBy |-> performedBy])

\* a day goes by
DayPasses(maxDays) ==
  /\ now + MinutesPerDay <= maxDays * MinutesPerDay + MaxResetTicks * TickStep
  /\ now' = now + MinutesPerDay
  /\ last' = NoRequest
  /\ UNCHANGED <<loginAttempts, lockedUntil, mfaEnabled, password, otpCodes,
                 jwts, blacklistedTokens, calls, loggedOut, risk,
                 loginHistory, userDevice, rentalAgreement, agreementAuditLog,
                 activityLogger>>

\* mutant: the comparison the wrong way round
AgreementExpired_Reversed(agreement) ==
  agreement.expiresAt # Null /\ now < agreement.expiresAt[1]

\* agreement.expiresAt && new Date() > agreement.expiresAt
AgreementExpired(agreement) ==
  agreement.expiresAt # Null /\ now > agreement.expiresAt[1]

\* expireAgreement(agreementId)
ExpireAgreement ==
  /\ CanLog(1)
  /\ rentalAgreement' = [rentalAgreement EXCEPT !.status = "EXPIRED"]
  /\ agreementAuditLog' = LogAuditAction(agreementAuditLog, "EXPIRED", Null)

\* a call that has thrown (or a request turned down) with an error message,
\* and one that has returned
Threw(op, userId, message) ==
  [NoRequest EXCEPT !.op = op, !.userId = Some(userId), !.message = message,
                    !.status = 400]

ReturnedFrom(op, userId) ==
  [NoRequest EXCEPT !.op = op, !.userId = Some(userId), !.status = 200]

\* a call that throws before it has written anything
Refused(op, userId, message) ==
  /\ last' = Threw(op, userId, message)
  /\ UNCHANGED <<rentalAgreement, agreementAuditLog>>

\* POST /:id/initiate (landlord only) and initiateSigningWorkflow
InitiateSigningWorkflow(requestedBy, expiresInDays) ==
  /\ IF requestedBy # Landlord THEN
       Refused("initiateSigningWorkflow", requestedBy,
               "Only the landlord can initiate signing")
     ELSE IF rentalAgreement.status # "DRAFT" THEN
       Refused("initiateSigningWorkflow", requestedBy,
               "Cannot initiate signing")
     ELSE
       /\ CanLog(1)
       /\ rentalAgreement' =
            [rentalAgreement EXCEPT !.status = "PENDING_LANDLORD",
               !.expiresAt = Some(now + expiresInDays * MinutesPerDay)]
       /\ agreementAuditLog' =
            LogAuditAction(agreementAuditLog, "SIGNATURE_REQUESTED",
                           Some(requestedBy))
       /\ last' = ReturnedFrom("initiateSigningWorkflow", requestedBy)
  /\ UNCHANGED <<now, loginAttempts, lockedUntil, mfaEnabled, password,
                 otpCodes, jwts, blacklistedTokens, calls, loggedOut, risk,
                 loginHistory, userDevice, activityLogger>>

\* mutant: a draft cannot be signed before the workflow is initiated
LandlordMaySign_Initiated(agreement) == agreement.status = "PENDING_LANDLORD"

\* signAsLandlord's test of the workflow status
LandlordMaySign(agreement) ==
  agreement.status = "PENDING_LANDLORD" \/ agreement.status = "DRAFT"

\* signAsLandlord(agreementId, userId, { signature, confirmed })
SignAsLandlord(userId, confirmed) ==
  /\ IF ~confirmed THEN
       Refused("signAsLandlord", userId,
               "Signature and confirmation are required")
     ELSE IF userId # Landlord THEN
       Refused("signAsLandlord", userId, "Access denied")
     ELSE IF ~LandlordMaySign(rentalAgreement) THEN
       Refused("signAsLandlord", userId, "Cannot sign")
     ELSE IF AgreementExpired(rentalAgreement) THEN
       /\ ExpireAgreement
       /\ last' = Threw("signAsLandlord", userId, "Agreement has expired")
     ELSE
       /\ CanLog(1)
       /\ rentalAgreement' =
            [rentalAgreement EXCEPT !.landlordSigned = TRUE,
                                    !.status = "PENDING_TENANT"]
       /\ agreementAuditLog' =
            LogAuditAction(agreementAuditLog, "LANDLORD_SIGNED",
                           Some(userId))
       /\ last' = ReturnedFrom("signAsLandlord", userId)
  /\ UNCHANGED <<now, loginAttempts, lockedUntil, mfaEnabled, password,
                 otpCodes, jwts, blacklistedTokens, calls, loggedOut, risk,
                 loginHistory, userDevice, activityLogger>>

\* mutant: the tenant may sign whenever a signature is pending
TenantMaySign_Pending(agreement) ==
  agreement.status \in {"PENDING_LANDLORD", "PENDING_TENANT"}

\* signAsTenant's test of the workflow status
TenantMaySign(agreement) == agreement.status = "PENDING_TENANT"

\* signAsTenant(agreementId, userId, { signature, confirmed })
SignAsTenant(userId, confirmed) ==
  /\ IF ~confirmed THEN
       Refused("signAsTenant", userId,
               "Signature and confirmation are required")
     ELSE IF userId # Tenant THEN
       Refused("signAsTenant", userId, "Access denied")
     ELSE IF ~TenantMaySign(rentalAgreement) THEN
       Refused("signAsTenant", userId,
               IF ~rentalAgreement.landlordSigned
                 THEN "Landlord must sign first" ELSE "Cannot sign")
     ELSE IF AgreementExpired(rentalAgreement) THEN
       /\ ExpireAgreement
       /\ last' = Threw("signAsTenant", userId, "Agreement has expired")
     ELSE
       /\ CanLog(2)
       /\ rentalAgreement' =
            [rentalAgreement EXCEPT !.tenantSigned = TRUE,
                                    !.status = "COMPLETED"]
       /\ agreementAuditLog' =
            LogAuditAction(
              LogAuditAction(agreementAuditLog, "TENANT_SIGNED",
                             Some(userId)),
              "COMPLETED", Some(userId))
       /\ last' = ReturnedFrom("signAsTenant", userId)
  /\ UNCHANGED <<now, loginAttempts, lockedUntil, mfaEnabled, password,
                 otpCodes, jwts, blacklistedTokens, calls, loggedOut, risk,
                 loginHistory, userDevice, activityLogger>>

\* mutant: the landlord may cancel whatever the status
CompletedAgreement_Never(agreement) == FALSE

\* cancelAgreement's test of the status
CompletedAgreement(agreement) == agreement.status = "COMPLETED"

\* cancelAgreement(agreementId, userId, reason)
CancelAgreement(userId) ==
  /\ IF userId # Landlord THEN
       Refused("cancelAgreement", userId,
               "Only the landlord can cancel the agreement")
     ELSE IF CompletedAgreement(rentalAgreement) THEN
       Refused("cancelAgreement", userId,
               "Cannot cancel a completed agreement")
     ELSE
       /\ CanLog(1)
       /\ rentalAgreement' = [rentalAgreement EXCEPT !.status = "CANCELLED"]
       /\ agreementAuditLog' =
            LogAuditAction(agreementAuditLog, "CANCELLED", Some(userId))
       /\ last' = ReturnedFrom("cancelAgreement", userId)
  /\ UNCHANGED <<now, loginAttempts, lockedUntil, mfaEnabled, password,
                 otpCodes, jwts, blacklistedTokens, calls, loggedOut, risk,
                 loginHistory, userDevice, activityLogger>>

\* POST /api/admin/agreements/:id/force-complete, with a reason
ForceComplete ==
  /\ IF rentalAgreement.status = "COMPLETED" THEN
       Refused("forceComplete", Admin, "Agreement is already completed")
     ELSE
       /\ CanLog(1)
       /\ rentalAgreement' =
            [rentalAgreement EXCEPT !.status = "COMPLETED",
               !.landlordSigned = TRUE, !.tenantSigned = TRUE]
       /\ agreementAuditLog' =
            LogAuditAction(agreementAuditLog, "FORCE_COMPLETED", Some(Admin))
       /\ last' = ReturnedFrom("forceComplete", Admin)
  /\ UNCHANGED <<now, loginAttempts, lockedUntil, mfaEnabled, password,
                 otpCodes, jwts, blacklistedTokens, calls, loggedOut, risk,
                 loginHistory, userDevice, activityLogger>>

\* POST /api/admin/agreements/:id/cancel, with a reason
AdminCancel ==
  /\ IF rentalAgreement.status = "CANCELLED" THEN
       Refused("adminCancel", Admin, "Agreement is already cancelled")
     ELSE
       /\ CanLog(1)
       /\ rentalAgreement' = [rentalAgreement EXCEPT !.status = "CANCELLED"]
       /\ agreementAuditLog' =
            LogAuditAction(agreementAuditLog, "CANCELLED_BY_ADMIN",
                           Some(Admin))
       /\ last' = ReturnedFrom("adminCancel", Admin)
  /\ UNCHANGED <<now, loginAttempts, lockedUntil, mfaEnabled, password,
                 otpCodes, jwts, blacklistedTokens, calls, loggedOut, risk,
                 loginHistory, userDevice, activityLogger>>

\* userRole, as getAgreement and GET /lease/:leaseId hand it to canUserSign
UserRole(userId) == IF userId = Landlord THEN "landlord" ELSE "tenant"

\* canUserSign(agreement, userId, role)
CanUserSign(agreement, userId, role) ==
  IF agreement.status \in {"COMPLETED", "CANCELLED", "EXPIRED"} THEN FALSE
  ELSE IF agreement.expiresAt # Null /\ now > agreement.expiresAt[1]
    THEN FALSE
  ELSE IF role = "landlord" THEN
    /\ ~agreement.landlordSigned
    /\ (agreement.status = "DRAFT" \/ agreement.status = "PENDING_LANDLORD")
  ELSE IF role = "tenant" THEN
    /\ agreement.landlordSigned
    /\ ~agreement.tenantSigned
    /\ agreement.status = "PENDING_TENANT"
  ELSE FALSE

\* the signing workflow of one agreement
NextAgreement ==
  \/ Tick(MaxResetTicks)
  \/ DayPasses(MaxDays)
  \/ \E userId \in Parties, expiresInDays \in ExpiresInDays :
       InitiateSigningWorkflow(userId, expiresInDays)
  \/ \E userId \in Parties, confirmed \in BOOLEAN :
       SignAsLandlord(userId, confirmed)
  \/ \E userId \in Parties, confirmed \in BOOLEAN :
       SignAsTenant(userId, confirmed)
  \/ \E userId \in Parties : CancelAgreement(userId)
  \/ ForceComplete
  \/ AdminCancel

SpecAgreement == Init /\ [][NextAgreement]_vars

\* C26: in every state of the agreement, tenantSigned implies
\* landlordSigned, and status COMPLETED implies both; the tenant's own
\* signature (TENANT_SIGNED in the audit log) comes after the landlord's.
C26_LandlordBeforeTenant ==
  /\ rentalAgreement.tenantSigned => rentalAgreement.landlordSigned
  /\ rentalAgreement.status = "COMPLETED" =>
       rentalAgreement.landlordSigned /\ rentalAgreement.tenantSigned
  /\ \A i \in DOMAIN agreementAuditLog :
       agreementAuditLog[i].action = "TENANT_SIGNED" =>
         \E j \in 1..(i - 1) : agreementAuditLog[j].action = "LANDLORD_SIGNED"

\* C26 witness: the tenant has signed after the landlord
C26_Witness ==
  /\ rentalAgreement.status = "COMPLETED" /\ rentalAgreement.tenantSigned
  /\ \E i \in DOMAIN agreementAuditLog :
       agreementAuditLog[i].action = "TENANT_SIGNED"

\* the audit actions that go with an agreement entering a status
AuditActionsOf(status) ==
  CASE status = "PENDING_LANDLORD" -> {"SIGNATURE_REQUESTED"}
    [] status = "PENDING_TENANT" -> {"LANDLORD_SIGNED"}
    [] status = "COMPLETED" -> {"COMPLETED", "FORCE_COMPLETED"}
    [] status = "CANCELLED" -> {"CANCELLED", "CANCELLED_BY_ADMIN"}
    [] status = "EXPIRED" -> {"EXPIRED"}
    [] OTHER -> {}

ActivityTypes == {"LOGIN_SUCCESS", "LOGIN_FAILED", "SUSPICIOUS_ACTIVITY"}

FormatLog(level, type, data) ==
  [timestamp |-> now, level |-> level, type |-> type, data |-> data]

\* logActivity as the module's own functions call it: the entry is written
\* to the console and returned; the activityLogs array is not touched
LogActivity(logs, type, details) ==
  [log |-> FormatLog("INFO", type, details), logs |-> logs]

\* unshift, then the array is cut to its first MAX_STORED_LOGS entries
StoreLog(logs, log) ==
  LET added == <<log>> \o logs
  IN IF Len(added) > MAX_STORED_LOGS
       THEN SubSeq(added, 1, MAX_STORED_LOGS)
       ELSE added

\* logActivity as the module exports it
LogActivityWithStorage(logs, type, details) ==
  LET log == FormatLog(IF type \in {"LOGIN_FAILED", "SUSPICIOUS_ACTIVITY"}
                         THEN "WARN" ELSE "INFO", type, details)
  IN [log |-> log, logs |-> StoreLog(logs, log)]

\* getLogs: an absent (Null) type or level does not filter
GetLogs(logs, type, level, limit, offset) ==
  LET OfType(log) == type # Null => log.type = type[1]
      OfLevel(log) == level # Null => log.level = level[1]
      filtered == SelectSeq(SelectSeq(logs, OfType), OfLevel)
  IN [logs |-> SubSeq(filtered, offset + 1,
                      Min(offset + limit, Len(filtered))),
      total |-> Len(filtered), limit |-> limit, offset |-> offset]

\* the attempts of an entry made within the window before now
RecentAttempts(attempts) ==
  LET InWindow(timestamp) == (now - timestamp) < AttemptWindowMinutes
  IN SelectSeq(attempts, InWindow)

\* trackFailedLogin: the Map and the array after the call, and its result
TrackFailedLogin(loginAttemptsMap, logs, ip, email) ==
  LET key == GetTrackingKey(ip, email)
      entry == IF loginAttemptsMap[key] = Null
                 THEN [attempts |-> <<>>, alertSent |-> FALSE]
                 ELSE loginAttemptsMap[key][1]
      attempts == Append(RecentAttempts(entry.attempts), now)
      isOverThreshold == Len(attempts) >= FAILED_ATTEMPT_THRESHOLD
      shouldAlert == isOverThreshold /\ ~entry.alertSent
      logged == IF shouldAlert
                  THEN LogActivity(logs, "SUSPICIOUS_ACTIVITY",
                                   [key |-> key,
                                    attemptCount |-> Len(attempts)])
                  ELSE [log |-> Null, logs |-> logs]
  IN [loginAttempts |->
        [loginAttemptsMap EXCEPT ![key] =
           Some([attempts |-> attempts,
                 alertSent |-> entry.alertSent \/ shouldAlert])],
      logs |-> logged.logs,
      alertLog |-> logged.log,
      result |-> [attemptCount |-> Len(attempts),
                  isOverThreshold |-> isOverThreshold,
                  shouldAlert |-> shouldAlert]]

\* resetLoginTracking
ResetLoginTracking(loginAttemptsMap, ip, email) ==
  [loginAttemptsMap EXCEPT ![GetTrackingKey(ip, email)] = Null]

\* a failed login begins a burst: the key has no failure within the window
\* before it (the entry always holds the key's latest failure)
BeginsBurst(ip, email) ==
  LET entry == activityLogger.loginAttempts[GetTrackingKey(ip, email)]
  IN entry # Null => RecentAttempts(entry[1].attempts) = <<>>

\* the entry of a key may take one more failed login
CanTrack(ip, email) ==
  LET entry == activityLogger.loginAttempts[GetTrackingKey(ip, email)]
  IN entry # Null => Len(RecentAttempts(entry[1].attempts)) < MaxTracked

\* logLoginFailed
LogLoginFailed(email, ip) ==
  /\ CanTrack(ip, email)
  /\ LET tracked == TrackFailedLogin(activityLogger.loginAttempts,
                                     activityLogger.activityLogs, ip, email)
         logged == LogActivity(tracked.logs, "LOGIN_FAILED",
                               [key |-> GetTrackingKey(ip, email),
                                attemptCount |-> tracked.result.attemptCount])
     IN /\ activityLogger' =
             [loginAttempts |-> tracked.loginAttempts,
              activityLogs |-> logged.logs,
              burstAlerts |->
                [activityLogger.burstAlerts EXCEPT
                   ![GetTrackingKey(ip, email)] =
                     (IF BeginsBurst(ip, email) THEN 0 ELSE @)
                       + (IF tracked.result.shouldAlert THEN 1 ELSE 0)]]
        /\ last' = [NoRequest EXCEPT !.op = "logLoginFailed",
                                     !.userId = Some(email),
                                     !.tracking = Some(tracked.result),
                                     !.alert = tracked.alertLog,
                                     !.log = Some(logged.log)]
  /\ UNCHANGED <<now, loginAttempts, lockedUntil, mfaEnabled, password,
                 otpCodes, jwts, blacklistedTokens, calls, loggedOut, risk,
                 loginHistory, userDevice, rentalAgreement,
                 agreementAuditLog>>

\* logLoginSuccess
LogLoginSuccess(email, ip) ==
  /\ LET logged == LogActivity(activityLogger.activityLogs, "LOGIN_SUCCESS",
                               [key |-> GetTrackingKey(ip, email),
                                attemptCount |-> 0])
     IN /\ activityLogger' =
             [activityLogger EXCEPT
                !.loginAttempts =
                  ResetLoginTracking(activityLogger.loginAttempts, ip, email),
                !.activityLogs = logged.logs]
        /\ last' = [NoRequest EXCEPT !.op = "logLoginSuccess",
                                     !.userId = Some(email),
                                     !.log = Some(logged.log)]
  /\ UNCHANGED <<now, loginAttempts, lockedUntil, mfaEnabled, password,
                 otpCodes, jwts, blacklistedTokens, calls, loggedOut, risk,
                 loginHistory, userDevice, rentalAgreement,
                 agreementAuditLog>>

\* cleanupOldEntries, which a timer calls: an entry with no attempt left in
\* the window is deleted
CleanupOldEntries ==
  /\ activityLogger' =
       [activityLogger EXCEPT
          !.loginAttempts =
            [key \in TrackingKeys |->
               LET entry == activityLogger.loginAttempts[key]
               IN IF entry = Null THEN Null
                  ELSE IF RecentAttempts(entry[1].attempts) = <<>> THEN Null
                  ELSE Some([entry[1] EXCEPT
                               !.attempts = RecentAttempts(@)])]]
  /\ last' = [NoRequest EXCEPT !.op = "cleanupOldEntries"]
  /\ UNCHANGED <<now, loginAttempts, lockedUntil, mfaEnabled, password,
                 otpCodes, jwts, blacklistedTokens, calls, loggedOut, risk,
                 loginHistory, userDevice, rentalAgreement,
                 agreementAuditLog>>

\* a caller outside the module logs an activity through the exported
\* logActivity
LogActivityExported(type, email, ip) ==
  /\ Len(activityLogger.activityLogs) < MaxLogs
  /\ LET logged == LogActivityWithStorage(activityLogger.activityLogs, type,
                                          [key |-> GetTrackingKey(ip, email),
                                           attemptCount |-> 0])
     IN /\ activityLogger' =
             [activityLogger EXCEPT !.activityLogs = logged.logs]
        /\ last' = [NoRequest EXCEPT !.op = "logActivity",
                                     !.userId = Some(email),
                                     !.log = Some(logged.log)]
  /\ UNCHANGED <<now, loginAttempts, lockedUntil, mfaEnabled, password,
                 otpCodes, jwts, blacklistedTokens, calls, loggedOut, risk,
                 loginHistory, userDevice, rentalAgreement,
                 agreementAuditLog>>

\* clearLogs: activityLogs.length = 0
ClearLogs ==
  /\ activityLogger' = [activityLogger EXCEPT !.activityLogs = <<>>]
  /\ last' = [NoRequest EXCEPT !.op = "clearLogs"]
  /\ UNCHANGED <<now, loginAttempts, lockedUntil, mfaEnabled, password,
                 otpCodes, jwts, blacklistedTokens, calls, loggedOut, risk,
                 loginHistory, userDevice, rentalAgreement,
                 agreementAuditLog>>

NextTracking ==
  \/ Tick(MaxTicks)
  \/ \E email \in TrackedEmails, ip \in TrackedIps : LogLoginFailed(email, ip)
  \/ \E email \in TrackedEmails, ip \in TrackedIps :
       LogLoginSuccess(email, ip)
  \/ CleanupOldEntries

SpecTracking == Init /\ [][NextTracking]_vars

NextActivity ==
  \/ Tick(MaxResetTicks)
  \/ \E email \in TrackedEmails, ip \in TrackedIps : LogLoginFailed(email, ip)
  \/ \E email \in TrackedEmails, ip \in TrackedIps :
       LogLoginSuccess(email, ip)
  \/ CleanupOldEntries
  \/ \E type \in ActivityTypes, email \in TrackedEmails, ip \in TrackedIps :
       LogActivityExported(type, email, ip)
  \/ ClearLogs

SpecActivity == Init /\ [][NextActivity]_vars

\* C28: once a failed login has brought the failures of its key within the
\* 15-minute window to the threshold of 5 or beyond, trackFailedLogin has
\* reported shouldAlert = true exactly once for that burst of failures.
C28_AlertOncePerBurst ==
  [][last'.op = "logLoginFailed" =>
       LET key == GetTrackingKey("ip1", last'.userId[1])
       IN last'.tracking[1].attemptCount >= FAILED_ATTEMPT_THRESHOLD
            => activityLogger'.burstAlerts[key] = 1]_vars

\* C29: a failed login logged through logLoginFailed, and an alert raised
\* by trackFailedLogin, is in the activity log when the call returns, and
\* getLogs filtered on its type returns it.
C29_FailedLoginsStored ==
  [][last'.op = "logLoginFailed" =>
       LET Returned(type) ==
             GetLogs(activityLogger'.activityLogs, Some(type), Null,
                     GetLogsLimit, 0).logs
       IN /\ \E i \in DOMAIN Returned("LOGIN_FAILED") :
               Returned("LOGIN_FAILED")[i] = last'.log[1]
          /\ last'.tracking[1].shouldAlert =>
               \E i \in DOMAIN Returned("SUSPICIOUS_ACTIVITY") :
                 Returned("SUSPICIOUS_ACTIVITY")[i] = last'.alert[1]]_vars

\* ------------------------------------------------------------------------
\* OtpService.createOtp request by request: each await of a database call
\* is a step, and other requests run between the steps
\* ------------------------------------------------------------------------

\* await prisma.otpCode.updateMany(...): a new call marks the unused rows of
\* its user and type as used
CreateOtpInvalidate(userId, type) ==
  /\ Len(calls) < MaxOtpCalls
  /\ otpCodes' = [i \in DOMAIN otpCodes |->
                    IF InvalidatedByCreate(otpCodes[i], userId, type)
                      THEN [otpCodes[i] EXCEPT !.usedAt = Some(now)]
                      ELSE otpCodes[i]]
  /\ calls' = Append(calls, [op |-> "createOtp", userId |-> userId,
                             type |-> type, pc |-> "invalidated",
                             result |-> Null])
  /\ UNCHANGED <<now, loginAttempts, lockedUntil, mfaEnabled, password, jwts,
                 blacklistedTokens, last, loggedOut, risk, loginHistory,
                 userDevice, rentalAgreement, agreementAuditLog,
                 activityLogger>>

\* generateOtpCode, hashOtp, the expiry, then
\* await prisma.otpCode.create(...), and the answer
CreateOtpStore(c) ==
  LET call == calls[c] IN
  /\ call.op = "createOtp" /\ call.pc = "invalidated"
  /\ \E plainOtp \in GenerateOtpCodes :
       /\ otpCodes' = Append(otpCodes,
            [userId |-> call.userId, code |-> HashOtp(plainOtp),
             type |-> call.type, expiresAt |-> now + OTP_EXPIRY_MINUTES,
             attempts |-> 0, usedAt |-> Null, createdAt |-> now])
       /\ calls' = [calls EXCEPT ![c].pc = "done",
                      ![c].result = Some([otp |-> plainOtp,
                                          expiresAt |->
                                            now + OTP_EXPIRY_MINUTES])]
  /\ UNCHANGED <<now, loginAttempts, lockedUntil, mfaEnabled, password, jwts,
                 blacklistedTokens, last, loggedOut, risk, loginHistory,
                 userDevice, rentalAgreement, agreementAuditLog,
                 activityLogger>>

\* OtpService with createOtp calls that overlap
NextCreateRace ==
  \/ Tick(MaxOtpTicks)
  \/ \E u \in Users, type \in OtpTypes : CreateOtpInvalidate(u, type)
  \/ \E c \in DOMAIN calls : CreateOtpStore(c)

SpecCreateRace == Init /\ [][NextCreateRace]_vars

\* C31: once the createOtp calls have completed, whatever the order of
\* their store operations, at most one code of a user and type is unused
\* and unexpired.
C31_OneActiveOtpAfterOverlap ==
  (\A c \in DOMAIN calls : calls[c].pc = "done") =>
    \A u \in Users, type \in OtpTypes :
      Cardinality({i \in UnusedRows(u, type) :
                     now <= otpCodes[i].expiresAt}) <= 1

\* a session: login, the endpoints that check the bearer token themselves,
\* and logout
NextSession ==
  \/ Tick(MaxResetTicks)
  \/ \E email \in Emails, pw \in Passwords : Login(email, pw, Quiet)
  \/ \E t \in jwts : Logout(t)
  \/ \E t \in jwts : Me(t)
  \/ \E t \in jwts, cur \in Passwords, new \in Passwords :
       ChangePassword(t, cur, new)
  \/ \E t \in jwts : MfaEnable(t)
  \/ \E t \in jwts, pw \in Passwords : MfaDisable(t, pw)

SpecSession == Init /\ [][NextSession]_vars

\* C32: a session token that /logout has blacklisted is not accepted by the
\* endpoints that check the bearer token themselves: no request with it to
\* /me, /change-password, /mfa/enable or /mfa/disable is answered with 200.
C32_BlacklistedTokenRejectedEverywhere ==
  \A t \in {s \in loggedOut : s.type = "session"} :
    /\ ~ENABLED (Me(t) /\ last'.status = 200)
    /\ ~ENABLED (MfaEnable(t) /\ last'.status = 200)
    /\ \A cur \in Passwords, new \in Passwords :
         ~ENABLED (ChangePassword(t, cur, new) /\ last'.status = 200)
    /\ \A pw \in Passwords :
         ~ENABLED (MfaDisable(t, pw) /\ last'.status = 200)

\* what the client of POST /forgot-password receives
ForgotPasswordResponse(r) ==
  [status |-> r.status, message |-> r.message, data |-> r.data]

\* C33: POST /forgot-password answers every email with the same response,
\* the generic one, whether or not an active, unlocked account has it.
C33_SameResponseForEveryEmail ==
  last.op = "forgotPassword" =>
    ForgotPasswordResponse(last) = ForgotPasswordResponse(GenericResponse)

\* C34 as claimed: once an agreement's status is COMPLETED, no operation
\* changes it.
C34_CompletedIsFinal ==
  [][rentalAgreement.status = "COMPLETED" =>
       rentalAgreement'.status = "COMPLETED"]_vars

\* C34, amended: once an agreement's status is COMPLETED, the landlord's
\* cancel, the signing operations with their expiry, initiate and the admin's
\* force-complete leave it (and the audit log) as they are; only the
\* admin's cancel changes it, to CANCELLED.
C34_CompletedFinalButForAdminCancel ==
  [][rentalAgreement.status = "COMPLETED" =>
       \/ /\ rentalAgreement' = rentalAgreement
          /\ agreementAuditLog' = agreementAuditLog
       \/ /\ last'.op = "adminCancel"
          /\ rentalAgreement'.status = "CANCELLED"]_vars

\* C34 witness: the landlord has asked to cancel a completed agreement and
\* has been refused
C34_Witness ==
  /\ rentalAgreement.status = "COMPLETED"
  /\ last = Threw("cancelAgreement", Landlord,
                  "Cannot cancel a completed agreement")

\* the step is a sign request of a party, with signature and confirmation
SignStep(op, userId) ==
  /\ last'.op = op /\ last'.userId = Some(userId)
  /\ last'.message # "Signature and confirmation are required"

\* the signing period of the agreement is over
PastExpiresAt ==
  rentalAgreement.expiresAt # Null /\ now > rentalAgreement.expiresAt[1]

\* C35: a sign request of the party whose signature is pending, made after
\* the agreement's expiresAt, records no signature, sets the status to
\* EXPIRED and fails with an error; once an agreement has been marked
\* expired, no sign request of either party succeeds or records a signature.
C35_ExpiredCannotBeSigned ==
  [][/\ ((\/ /\ SignStep("signAsLandlord", Landlord)
              /\ rentalAgreement.status = "PENDING_LANDLORD"
           \/ /\ SignStep("signAsTenant", Tenant)
              /\ rentalAgreement.status = "PENDING_TENANT")
         /\ PastExpiresAt)
        => /\ rentalAgreement' = [rentalAgreement EXCEPT !.status = "EXPIRED"]
           /\ last'.status = 400 /\ last'.message = "Agreement has expired"
     /\ ((\E i \in DOMAIN agreementAuditLog :
             agreementAuditLog[i].action = "EXPIRED")
         /\ last'.op \in {"signAsLandlord", "signAsTenant"})
        => /\ last'.status = 400
           /\ rentalAgreement' = rentalAgreement]_vars

\* C35 witness: the tenant has tried to sign, after the landlord, an
\* agreement past its expiresAt, and later tried again
C35_Witness ==
  /\ rentalAgreement.status = "EXPIRED"
  /\ rentalAgreement.landlordSigned /\ ~rentalAgreement.tenantSigned
  /\ agreementAuditLog[Len(agreementAuditLog)].action = "EXPIRED"
  /\ last = Threw("signAsTenant", Tenant, "Cannot sign")

\* the sign request of a party, with signature and confirmation, would
\* succeed now
SignWouldSucceed(userId) ==
  IF userId = Landlord
    THEN ENABLED (SignAsLandlord(userId, TRUE) /\ last'.status = 200)
    ELSE ENABLED (SignAsTenant(userId, TRUE) /\ last'.status = 200)

\* C36: in every reachable state of the agreement (whose audit log takes the
\* rows of a signature) canUserSign is true for a party exactly when that
\* party's sign request, with signature and confirmation, would succeed.
C36_CanUserSignMatchesSign ==
  CanLog(2) =>
    \A userId \in Parties :
      CanUserSign(rentalAgreement, userId, UserRole(userId))
        <=> SignWouldSucceed(userId)

\* C36 witness: the landlord has signed; canUserSign says the tenant can sign
\* and the landlord cannot
C36_Witness ==
  /\ last = ReturnedFrom("signAsLandlord", Landlord)
  /\ CanLog(2)
  /\ CanUserSign(rentalAgreement, Tenant, UserRole(Tenant))
  /\ ~CanUserSign(rentalAgreement, Landlord, UserRole(Landlord))

\* ------------------------------------------------------------------------
\* signAsLandlord, signAsTenant and cancelAgreement request by request: the
\* findUnique is a step, the tests on the row read and the update are
\* another, and other requests run between the two
\* ------------------------------------------------------------------------

\* await prisma.rentalAgreement.findUnique(...): a new call reads the row
AgreementFind(op, userId) ==
  /\ Len(calls) < MaxAgreementCalls
  /\ calls' = Append(calls, [op |-> op, userId |-> userId,
                             agreement |-> rentalAgreement, pc |-> "found",
                             result |-> Null])
  /\ UNCHANGED <<rentalAgreement, agreementAuditLog>>
  /\ UNCHANGED <<now, loginAttempts, lockedUntil, mfaEnabled, password,
                 otpCodes, jwts, blacklistedTokens, last, loggedOut, risk,
                 loginHistory, userDevice, activityLogger>>

\* the call ends with an error, having written nothing
AgreementCallThrows(c, message) ==
  /\ calls' = [calls EXCEPT ![c].pc = "done", ![c].result = Some(message)]
  /\ UNCHANGED <<rentalAgreement, agreementAuditLog>>

\* signAsLandlord after its findUnique: the tests on the row read, then
\* await prisma.rentalAgreement.update(...) and the audit row
SignAsLandlordUpdate(c) ==
  LET call == calls[c] IN
  /\ call.op = "signAsLandlord" /\ call.pc = "found"
  /\ IF call.userId # Landlord THEN AgreementCallThrows(c, "Access denied")
     ELSE IF ~LandlordMaySign(call.agreement) THEN
       AgreementCallThrows(c, "Cannot sign")
     ELSE IF AgreementExpired(call.agreement) THEN
       /\ ExpireAgreement
       /\ calls' = [calls EXCEPT ![c].pc = "done",
                      ![c].result = Some("Agreement has expired")]
     ELSE
       /\ CanLog(1)
       /\ rentalAgreement' =
            [rentalAgreement EXCEPT !.landlordSigned = TRUE,
                                    !.status = "PENDING_TENANT"]
       /\ agreementAuditLog' =
            LogAuditAction(agreementAuditLog, "LANDLORD_SIGNED",
                           Some(call.userId))
       /\ calls' = [calls EXCEPT ![c].pc = "done", ![c].result = Some("")]
  /\ UNCHANGED <<now, loginAttempts, lockedUntil, mfaEnabled, password,
                 otpCodes, jwts, blacklistedTokens, last, loggedOut, risk,
                 loginHistory, userDevice, activityLogger>>

\* signAsTenant after its findUnique
SignAsTenantUpdate(c) ==
  LET call == calls[c] IN
  /\ call.op = "signAsTenant" /\ call.pc = "found"
  /\ IF call.userId # Tenant THEN AgreementCallThrows(c, "Access denied")
     ELSE IF ~TenantMaySign(call.agreement) THEN
       AgreementCallThrows(c, IF ~call.agreement.landlordSigned
                                THEN "Landlord must sign first"
                                ELSE "Cannot sign")
     ELSE IF AgreementExpired(call.agreement) THEN
       /\ ExpireAgreement
       /\ calls' = [calls EXCEPT ![c].pc = "done",
                      ![c].result = Some("Agreement has expired")]
     ELSE
       /\ CanLog(2)
       /\ rentalAgreement' =
            [rentalAgreement EXCEPT !.tenantSigned = TRUE,
                                    !.status = "COMPLETED"]
       /\ agreementAuditLog' =
            LogAuditAction(
              LogAuditAction(agreementAuditLog, "TENANT_SIGNED",
                             Some(call.userId)),
              "COMPLETED", Some(call.userId))
       /\ calls' = [calls EXCEPT ![c].pc = "done", ![c].result = Some("")]
  /\ UNCHANGED <<now, loginAttempts, lockedUntil, mfaEnabled, password,
                 otpCodes, jwts, blacklistedTokens, last, loggedOut, risk,
                 loginHistory, userDevice, activityLogger>>

\* cancelAgreement after its findUnique
CancelAgreementUpdate(c) ==
  LET call == calls[c] IN
  /\ call.op = "cancelAgreement" /\ call.pc = "found"
  /\ IF call.userId # Landlord THEN
       AgreementCallThrows(c, "Only the landlord can cancel the agreement")
     ELSE IF CompletedAgreement(call.agreement) THEN
       AgreementCallThrows(c, "Cannot cancel a completed agreement")
     ELSE
       /\ CanLog(1)
       /\ rentalAgreement' = [rentalAgreement EXCEPT !.status = "CANCELLED"]
       /\ agreementAuditLog' =
            LogAuditAction(agreementAuditLog, "CANCELLED", Some(call.userId))
       /\ calls' = [calls EXCEPT ![c].pc = "done", ![c].result = Some("")]
  /\ UNCHANGED <<now, loginAttempts, lockedUntil, mfaEnabled, password,
                 otpCodes, jwts, blacklistedTokens, last, loggedOut, risk,
                 loginHistory, userDevice, activityLogger>>

\* an initiated agreement, with sign and cancel requests that overlap
NextAgreementRace ==
  \/ \E expiresInDays \in ExpiresInDays :
       InitiateSigningWorkflow(Landlord, expiresInDays)
  \/ \E op \in {"signAsLandlord", "signAsTenant", "cancelAgreement"},
        userId \in Parties : AgreementFind(op, userId)
  \/ \E c \in DOMAIN calls : SignAsLandlordUpdate(c)
  \/ \E c \in DOMAIN calls : SignAsTenantUpdate(c)
  \/ \E c \in DOMAIN calls : CancelAgreementUpdate(c)

SpecAgreementRace == Init /\ [][NextAgreementRace]_vars

\* C37: when a cancellation and a signature on the same agreement overlap,
\* an agreement whose cancellation has been stored is not moved to
\* PENDING_TENANT or COMPLETED by the signature.
C37_CancelledStaysCancelled ==
  [][rentalAgreement.status = "CANCELLED" =>
       rentalAgreement'.status \notin {"PENDING_TENANT", "COMPLETED"}]_vars

\* OtpService with codes of both purposes, over one expiry period
NextOtpTypes ==
  \/ Tick(MaxResetTicks)
  \/ \E u \in Users, type \in OtpTypes : CreateOtpCall(u, type)
  \/ \E u \in Users, code \in Codes, type \in OtpTypes :
       WithinGuesses(u, type, code) /\ VerifyOtpCall(u, code, type)

SpecOtpTypes == Init /\ [][NextOtpTypes]_vars

\* the rows of the table before the step that are not of the given type
\* are the same after it
OtherTypesUnchanged(type) ==
  \A i \in DOMAIN otpCodes :
    otpCodes[i].type # type => /\ i \in DOMAIN otpCodes'
                               /\ otpCodes'[i] = otpCodes[i]

\* C38: createOtp and verifyOtp for one type leave the rows of every other
\* type as they are, the row createOtp adds is of its type, and a verifyOtp
\* that succeeds has consumed an unused row of its own type holding the
\* code submitted: no code verifies a challenge of another type.
C38_OtpTypesIsolated ==
  [][/\ last'.op = "createOtp" =>
          /\ Len(otpCodes') = Len(otpCodes) + 1
          /\ OtherTypesUnchanged(otpCodes'[Len(otpCodes')].type)
     /\ (last'.op = "verifyOtp" /\ last'.otp # Null) =>
          LET call == last'.otp[1] IN
          /\ Len(otpCodes') = Len(otpCodes)
          /\ OtherTypesUnchanged(call.type)
          /\ call.success =>
               \E i \in DOMAIN otpCodes :
                 /\ otpCodes[i].userId = call.userId
                 /\ otpCodes[i].type = call.type
                 /\ otpCodes[i].usedAt = Null
                 /\ VerifyOtpHash(call.code, otpCodes[i].code)
                 /\ otpCodes'[i].usedAt # Null]_vars

\* C38 witness: a LOGIN code has been verified while the same user's
\* PASSWORD_RESET code, created before, is still pending and untouched
C38_Witness ==
  /\ last.op = "verifyOtp" /\ last.otp # Null
  /\ last.otp[1].type = "LOGIN" /\ last.otp[1].success
  /\ \E i \in DOMAIN otpCodes :
       /\ otpCodes[i].userId = last.otp[1].userId
       /\ otpCodes[i].type = "PASSWORD_RESET"
       /\ otpCodes[i].usedAt = Null /\ otpCodes[i].attempts = 0

\* the login history is followed with the risk score of every attempt
InitScore ==
  /\ now = 0
  /\ loginAttempts = [u \in Users |-> 0]
  /\ lockedUntil = [u \in Users |-> Null]
  /\ mfaEnabled \in [Users -> BOOLEAN]
  /\ password = [u \in Users |-> "pwA"]
  /\ otpCodes = <<>>
  /\ jwts = {}
  /\ blacklistedTokens = {}
  /\ last = NoRequest
  /\ calls = <<>>
  /\ loggedOut = {}
  /\ risk = NoRisk
  /\ loginHistory = KeptWithScores
  /\ userDevice = Kept
  /\ rentalAgreement = DraftAgreement
  /\ agreementAuditLog = <<>>
  /\ activityLogger = NoActivity

\* the logins with and without MFA, from either device, while the clock
\* stands still: every earlier failure lies inside both windows of the score
NextScore ==
  \/ \E email \in Emails, pw \in Passwords, env \in Requests :
       Login(email, pw, env)
  \/ \E t \in jwts, otp \in GenerateOtpCodes, env \in Requests :
       MfaVerify(t, otp, env)

SpecScore == InitScore /\ [][NextScore]_vars

\* C39: the login-history row of a successful login, by /login without MFA
\* or by /mfa/verify, from a device the account had no row for carries a
\* risk score that includes the 30 points of a new device.
C39_NewDeviceScored ==
  [][\A u \in Users :
       (/\ LoggedIn(last') /\ last'.userId = Some(u)
        /\ ~Recorded(userDevice, u, last'.device[1].hash))
       => LET row == loginHistory'.rows[Len(loginHistory'.rows)]
          IN /\ Len(loginHistory'.rows) = Len(loginHistory.rows) + 1
             /\ row.userId = u /\ row.success
             /\ row.riskScore[1] >= NewDeviceRisk(FALSE)]_vars
====
